---- MODULE Spec2Model ----
(***************************************************************************)
(* Model of the analytical core of Projeto_MBA:                            *)
(*   - DetectorEventos   (src/dados/processadores/eventos.py)              *)
(*   - PrevisorSeriesTemporal (src/dados/processadores/previsao.py)        *)
(* Dates are day ordinals (day 0 = 2017-01-01), values are integers, the   *)
(* sensitivity is kept in tenths.  Real-valued comparisons of the code are *)
(* evaluated exactly by cross-multiplication; the square roots of the      *)
(* rolling standard deviation are bracketed between two scaled integers.   *)
(***************************************************************************)
EXTENDS Integers, Sequences, FiniteSets, TLC

VARIABLES
    df,              \* the caller's series handed to detectar_eventos
    colunas,         \* the columns that series carries
    sensibilidade,   \* DetectorEventos.sensibilidade, in tenths
    eventos,         \* value returned by the last detectar_eventos call
    candidatos,      \* candidates of the three rules in that call, rule order
    chamada,         \* "nenhuma" | "detectar" | "repetida": the calls made
                     \* with the series as it is now
    df_eventos,      \* the candidate frame of that call after sort_values
    desvio,          \* the sum of the rolling deviations that call computed
    eventos_anteriores, \* value returned by the call before it, same series
    eventos_filtrados,  \* _filtrar_eventos_proximos: the events kept so far
    i_filtro,           \* _filtrar_eventos_proximos: the loop index reached
    dados_indicadores,  \* the indicator frames handed to the pipeline
    previsores,         \* per indicator, the pipeline's own session and step
    previsoes,          \* gerar_previsoes_para_indicadores: the result dict
    eventos_indicadores,\* detectar_eventos_indicadores: the result dict
    df_prophet,         \* frame returned by the last preparar_dados call
    PROPHET_AVAILABLE,  \* whether the import of the engine succeeded
    dados_preparados,   \* PrevisorSeriesTemporal.dados_preparados
    periodicidade,      \* PrevisorSeriesTemporal.periodicidade
    modelo,             \* PrevisorSeriesTemporal.modelo
    op,              \* the last call made on the session
    retorno,         \* what treinar returned, "-" for the other calls
    levantou,        \* the last call let an exception escape
    previsao,        \* forecast frame returned by prever / used by the merge
    saida,           \* frame returned by obter_dados_previsao
    incluir,         \* incluir_historico of that call
    metricas,        \* value returned by avaliar_modelo
    dobras,          \* backtest folds of the last avaliar_modelo call
    dobras_falhas,   \* the folds among them whose fit raised
    treinou          \* history: some treinar call has returned True

varsEventos == <<df, colunas, sensibilidade, eventos, candidatos, chamada,
                 df_eventos, desvio, eventos_anteriores>>
varsSessao == <<PROPHET_AVAILABLE, dados_preparados, periodicidade, modelo>>
varsRetorno == <<op, retorno, previsao, saida, incluir, metricas,
                 dobras, dobras_falhas, treinou, df_prophet>>
varsChamada == <<varsRetorno, levantou>>
varsPrevisor == <<varsSessao, varsChamada>>
varsFiltro == <<eventos_filtrados, i_filtro>>
varsPipeline == <<dados_indicadores, previsores, previsoes,
                  eventos_indicadores>>
varsFora == <<varsFiltro, varsPipeline>>
vars == <<varsEventos, varsPrevisor, varsFora>>

\* ---------------------------------------------------------------- bounds
MaxLen == 6
MaxHist == 2
MaxPeriodos == 2
MaxDobras == 2
MaxQuadro == 3
MaxDatas == 3
MaxEventos == 3
MaxTendencia == 12
MaxPeriodicidade == 11
MaxRepetidas == 1
Valores == {10, 50}
Intervalos == {10, 31}
Sensibilidades == {0, 10, 15, 20}
Escala == 100

\* ------------------------------------------------------------ arithmetic
Abs(x) == IF x < 0 THEN -x ELSE x
Max2(a, b) == IF a > b THEN a ELSE b
Min2(a, b) == IF a < b THEN a ELSE b

RECURSIVE GCD(_, _)
GCD(a, b) == IF b = 0 THEN a ELSE GCD(b, a % b)

LCM(a, b) == (a * b) \div GCD(a, b)

RECURSIVE ISqrtIter(_, _, _)
ISqrtIter(n, lo, hi) ==
    IF lo >= hi THEN lo
    ELSE LET mid == (lo + hi + 1) \div 2
         IN IF mid * mid <= n THEN ISqrtIter(n, mid, hi)
            ELSE ISqrtIter(n, lo, mid - 1)

ISqrt(n) == ISqrtIter(n, 0, Min2(n, 46340))

\* the sum of the terms a..b of a sequence of numbers, by halves
RECURSIVE SomaEntre(_, _, _)
SomaEntre(parcelas, a, b) ==
    IF a > b THEN 0
    ELSE IF a = b THEN parcelas[a]
    ELSE LET m == (a + b) \div 2
         IN SomaEntre(parcelas, a, m) + SomaEntre(parcelas, m + 1, b)

\* the concatenation of the terms a..b of a sequence of lists, by halves
RECURSIVE ConcatenaEntre(_, _, _)
ConcatenaEntre(partes, a, b) ==
    IF a > b THEN <<>>
    ELSE IF a = b THEN partes[a]
    ELSE LET m == (a + b) \div 2
         IN ConcatenaEntre(partes, a, m) \o ConcatenaEntre(partes, m + 1, b)

SumSeq(s) == SomaEntre(s, 1, Len(s))

SumSq(s) == SomaEntre([k \in 1..Len(s) |-> s[k] * s[k]], 1, Len(s))

ValoresDe(s) == [i \in 1..Len(s) |-> s[i].valor]

\* --------------------------------------------------------- preprocessing
\* df.sort_values(coluna_data): each row goes to the place after the rows
\* of an earlier date and the earlier rows of its own date
SortValues(s) ==
    LET n == Len(s)
        lugar == [i \in 1..n |->
                    1 + Cardinality({ j \in 1..n :
                                        \/ s[j].data < s[i].data
                                        \/ s[j].data = s[i].data /\ j < i })]
    IN IF \A i \in 1..(n - 1) : s[i].data <= s[i + 1].data
       THEN s
       ELSE [k \in 1..n |-> s[CHOOSE i \in 1..n : lugar[i] = k]]

\* rolling(window=w) window that ends at index i (1-based)
JanelaAte(v, i, w) == SubSeq(v, Max2(1, i - w + 1), i)

\* numerator of the sample variance: var = VarNum / (c * (c - 1))
VarNum(win) ==
    LET soma == SumSeq(win)
    IN Len(win) * SumSq(win) - soma * soma

\* rolling(window=12, min_periods=3).std() at index i, times Escala:
\* floor and ceiling of the real value
DesvioEm(v, i) ==
    LET win == JanelaAte(v, i, 12)
        c   == Len(win)
        num == VarNum(win) * Escala * Escala
        q   == num \div (c * (c - 1))
        lo  == ISqrt(q)
    IN IF num % (c * (c - 1)) = 0 /\ lo * lo = q
       THEN <<lo, lo>> ELSE <<lo, lo + 1>>

\* the sums of the floors and of the ceilings over the rows a..b, by halves
RECURSIVE SomaDesvioEntre(_, _, _)
SomaDesvioEntre(v, a, b) ==
    IF a > b THEN <<0, 0>>
    ELSE IF a = b THEN DesvioEm(v, a)
    ELSE LET m   == (a + b) \div 2
             esq == SomaDesvioEntre(v, a, m)
             dir == SomaDesvioEntre(v, m + 1, b)
         IN <<esq[1] + dir[1], esq[2] + dir[2]>>

SomaStdHiAte(v, i) == SomaDesvioEntre(v, 3, i)[2]

\* df['desvio_padrao'].mean() * Escala lies in [lo / k, hi / k]; the float
\* the code computes is represented by either end of the bracket
SomasDesvio(v) ==
    LET soma == SomaDesvioEntre(v, 3, Len(v))
    IN {soma[1], soma[2]}

\* x / div > df['desvio_padrao'].mean() * sensibilidade, for integers x, div
\* and the chosen bracket end soma; the std is defined from the third row
\* on (min_periods = 3), a NaN mean (no defined std) compares False
ExcedeLimiarDesvio(x, div, v, soma, sens) ==
    LET k == Max2(Len(v) - 2, 0)
    IN k > 0 /\ x * k * Escala * 10 > sens * soma * div

\* ---------------------------------------------------------------- rules
Evento(r, t) == [data |-> r.data, valor |-> r.valor, tipo |-> t]

TiposAbruptos == {"aumento_abrupto", "queda_abrupta"}
TiposInversao == {"inversao_alta_baixa", "inversao_baixa_alta"}
Tipos == {"pico", "vale"} \cup TiposAbruptos \cup TiposInversao

\* variant: a point level with its neighbours counts, and the threshold is
\* met when reached
PicoValeEmNaoEstrito(d, v, i, soma, sens) ==
    LET at  == v[i]
        ant == v[i - 1]
        pos == v[i + 1]
        k   == Max2(Len(v) - 2, 0)
        pico == /\ at >= ant /\ at >= pos
                /\ (at - Max2(ant, pos)) * k * Escala * 10 >= sens * soma
        vale == /\ at <= ant /\ at <= pos
                /\ (Min2(ant, pos) - at) * k * Escala * 10 >= sens * soma
    IN (IF pico THEN <<Evento(d[i], "pico")>> ELSE <<>>)
       \o (IF vale THEN <<Evento(d[i], "vale")>> ELSE <<>>)

\* variant: the point is compared with the row before it only
PicoValeEmSoAnterior(d, v, i, soma, sens) ==
    LET at  == v[i]
        ant == v[i - 1]
        pico == /\ at > ant
                /\ ExcedeLimiarDesvio(at - ant, 1, v, soma, sens)
        vale == /\ at < ant
                /\ ExcedeLimiarDesvio(ant - at, 1, v, soma, sens)
    IN (IF pico THEN <<Evento(d[i], "pico")>> ELSE <<>>)
       \o (IF vale THEN <<Evento(d[i], "vale")>> ELSE <<>>)

\* candidates of _detectar_picos_vales at the interior index i (1-based)
PicoValeEm(d, v, i, soma, sens) ==
    LET at  == v[i]
        ant == v[i - 1]
        pos == v[i + 1]
        pico == /\ at > ant /\ at > pos
                /\ ExcedeLimiarDesvio(at - Max2(ant, pos), 1, v, soma, sens)
        vale == /\ at < ant /\ at < pos
                /\ ExcedeLimiarDesvio(Min2(ant, pos) - at, 1, v, soma, sens)
    IN (IF pico THEN <<Evento(d[i], "pico")>> ELSE <<>>)
       \o (IF vale THEN <<Evento(d[i], "vale")>> ELSE <<>>)

\* the loop over the rows i .. Len(d) - 1
PicosValesDe(d, v, i, soma, sens) ==
    ConcatenaEntre([k \in i..(Len(d) - 1) |-> PicoValeEm(d, v, k, soma, sens)],
                   i, Len(d) - 1)

DetectarPicosVales(d, soma, sens) ==
    IF Len(d) < 3 THEN <<>> ELSE PicosValesDe(d, ValoresDe(d), 2, soma, sens)

\* pct_change() * 100 at index i >= 2, times mmc / 100, where the values
\* of the series all divide mmc
RECURSIVE MmcEntre(_, _, _)
MmcEntre(v, a, b) ==
    IF a > b THEN 1
    ELSE IF a = b THEN LCM(v[a], 1)
    ELSE LET m == (a + b) \div 2
         IN LCM(MmcEntre(v, a, m), MmcEntre(v, m + 1, b))

Mmc(v) == MmcEntre(v, 1, Len(v))

VariacaoPct(v, i, mmc) == (v[i] - v[i - 1]) * (mmc \div v[i - 1])

\* df['variacao_pct'].abs() summed over the defined changes, scaled alike
SomaAbsVariacao(v, i, mmc) ==
    SomaEntre([k \in 2..i |-> Abs(VariacaoPct(v, k, mmc))], 2, i)

\* variant: the threshold is the mean change times the sensitivity, not
\* twice that
ExcedeLimiarVariacaoSemDobro(x, n, soma_abs, sens) ==
    x * (n - 1) * 10 > soma_abs * sens

\* x > variacao_media * sensibilidade * 2, x a scaled percent change;
\* variacao_media is soma_abs over the n - 1 defined changes
ExcedeLimiarVariacao(x, n, soma_abs, sens) ==
    x * (n - 1) * 10 > soma_abs * sens * 2

\* variant: a change that reaches the threshold counts
MudancaAbruptaEmNaoEstrita(d, i, variacao, soma_abs, sens) ==
    IF variacao * (Len(d) - 1) * 10 >= soma_abs * sens * 2
    THEN <<Evento(d[i], "aumento_abrupto")>>
    ELSE IF -variacao * (Len(d) - 1) * 10 >= soma_abs * sens * 2
         THEN <<Evento(d[i], "queda_abrupta")>>
         ELSE <<>>

\* the loop body of _detectar_mudancas_abruptas for the row i, whose
\* percent change is defined
MudancaAbruptaEm(d, i, variacao, soma_abs, sens) ==
    IF ExcedeLimiarVariacao(variacao, Len(d), soma_abs, sens)
    THEN <<Evento(d[i], "aumento_abrupto")>>
    ELSE IF ExcedeLimiarVariacao(-variacao, Len(d), soma_abs, sens)
         THEN <<Evento(d[i], "queda_abrupta")>>
         ELSE <<>>

\* the loop over the rows i .. Len(d)
MudancasDe(d, v, i, mmc, soma_abs, sens) ==
    ConcatenaEntre([k \in i..Len(d) |->
                      MudancaAbruptaEm(d, k, VariacaoPct(v, k, mmc),
                                       soma_abs, sens)],
                   i, Len(d))

DetectarMudancasAbruptas(d, sens) ==
    IF Len(d) < 2 THEN <<>>
    ELSE LET v   == ValoresDe(d)
             mmc == Mmc(v)
         IN MudancasDe(d, v, 2, mmc, SomaAbsVariacao(v, Len(v), mmc), sens)

\* trend rule: janela-sized rolling mean, compared janela rows apart
Janela(d) == Min2(6, Len(d) \div 3)

\* janela * tendencia[i]; tendencia is NaN below index janela (1-based)
SomaJanela(v, i, janela) == SumSeq(SubSeq(v, i - janela + 1, i))

None == [estado |-> "None", val |-> 0]
NaN == [estado |-> "NaN", val |-> 0]
Num(x) == [estado |-> "num", val |-> x]

\* janela * (tendencia[i] - tendencia[i - janela])
DeltaTendencia(v, i, janela) ==
    IF i - janela < janela THEN NaN
    ELSE Num(SomaJanela(v, i, janela) - SomaJanela(v, i - janela, janela))

Inverte(anterior, atual) ==
    /\ anterior.estado = "num" /\ atual.estado = "num"
    /\ \/ anterior.val > 0 /\ atual.val < 0
       \/ anterior.val < 0 /\ atual.val > 0

\* variant: the kind follows the sign of the current tendency
TendenciaEmPeloAtual(d, v, i, anterior, soma, sens) ==
    LET janela == Janela(d)
        atual  == DeltaTendencia(v, i, janela)
    IN IF anterior = None THEN <<>>
       ELSE IF /\ Inverte(anterior, atual)
               /\ ExcedeLimiarDesvio(Abs(atual.val - anterior.val),
                                     janela, v, soma, sens)
            THEN <<Evento(d[i], IF atual.val > 0
                                THEN "inversao_alta_baixa"
                                ELSE "inversao_baixa_alta")>>
            ELSE <<>>

\* the loop body for the 1-based row i (0-based i - 1 >= janela + 2),
\* entered with tendencia_anterior = anterior
TendenciaEm(d, v, i, anterior, soma, sens) ==
    LET janela == Janela(d)
        atual  == DeltaTendencia(v, i, janela)
    IN IF anterior = None THEN <<>>
       ELSE IF /\ Inverte(anterior, atual)
               /\ ExcedeLimiarDesvio(Abs(atual.val - anterior.val),
                                     janela, v, soma, sens)
            THEN <<Evento(d[i], IF anterior.val > 0
                                THEN "inversao_alta_baixa"
                                ELSE "inversao_baixa_alta")>>
            ELSE <<>>

\* the loop over the rows i .. Len(d): the first row is entered with
\* anterior, every later row with the tendency of the row before it
TendenciasDe(d, v, i, anterior, soma, sens) ==
    ConcatenaEntre([k \in i..Len(d) |->
                      TendenciaEm(d, v, k,
                                  IF k = i THEN anterior
                                  ELSE DeltaTendencia(v, k - 1, Janela(d)),
                                  soma, sens)],
                   i, Len(d))

\* variant: the loop skips only the rows below janela + 1
DetectarTendenciasSemEspera(d, soma, sens) ==
    IF Len(d) < 6 THEN <<>>
    ELSE IF Janela(d) - 1 > Len(d) - Janela(d) - 1 THEN <<>>
         ELSE TendenciasDe(d, ValoresDe(d), Janela(d) + 2, None, soma, sens)

DetectarTendencias(d, soma, sens) ==
    IF Len(d) < 6 THEN <<>>
    ELSE IF Janela(d) - 1 > Len(d) - Janela(d) - 1 THEN <<>>
         ELSE TendenciasDe(d, ValoresDe(d), Janela(d) + 3, None, soma, sens)

\* ------------------------------------------------------ proximity filter
dias_minimos == 30

\* DataFrame.sort_values('data') on the candidates: quicksort is not a
\* stable sort, so candidates of one date may come out in any order
InsercoesPorData(s, r) ==
    { SubSeq(s, 1, p - 1) \o <<r>> \o SubSeq(s, p, Len(s)) :
        p \in { p \in 1..(Len(s) + 1) :
                  /\ \A q \in 1..(p - 1) : s[q].data <= r.data
                  /\ \A q \in p..Len(s) : s[q].data >= r.data } }

\* variant: the candidates are left in rule order
SemOrdenar(c) == {c}

RECURSIVE OrdensPorData(_)
OrdensPorData(c) ==
    IF c = <<>> THEN {<<>>}
    ELSE UNION { InsercoesPorData(s, c[Len(c)]) :
                    s \in OrdensPorData(SubSeq(c, 1, Len(c) - 1)) }

SubstituiUltimo(mantidos, e) == [mantidos EXCEPT ![Len(mantidos)] = e]

\* variant: a close candidate of the same kind is appended, not substituted
PassoFiltroAcrescenta(mantidos, atual) ==
    LET ultimo    == mantidos[Len(mantidos)]
        dias_diff == atual.data - ultimo.data
    IN IF dias_diff >= dias_minimos THEN Append(mantidos, atual)
       ELSE IF atual.tipo = ultimo.tipo
            THEN Append(mantidos, atual)
            ELSE IF /\ atual.tipo \in TiposAbruptos
                    /\ ultimo.tipo \notin TiposAbruptos
                 THEN SubstituiUltimo(mantidos, atual)
                 ELSE mantidos

\* variant: a close candidate of another kind is always discarded
PassoFiltroSemPrioridade(mantidos, atual) ==
    LET ultimo    == mantidos[Len(mantidos)]
        dias_diff == atual.data - ultimo.data
    IN IF dias_diff >= dias_minimos THEN Append(mantidos, atual)
       ELSE IF atual.tipo = ultimo.tipo
            THEN IF atual.tipo \in {"pico", "vale"}
                 THEN IF \/ atual.tipo = "pico" /\ atual.valor > ultimo.valor
                         \/ atual.tipo = "vale" /\ atual.valor < ultimo.valor
                      THEN SubstituiUltimo(mantidos, atual)
                      ELSE mantidos
                 ELSE SubstituiUltimo(mantidos, atual)
            ELSE mantidos

\* variant: a close peak or valley of the same kind always takes the slot
PassoFiltroMaisRecente(mantidos, atual) ==
    LET ultimo    == mantidos[Len(mantidos)]
        dias_diff == atual.data - ultimo.data
    IN IF dias_diff >= dias_minimos THEN Append(mantidos, atual)
       ELSE IF atual.tipo = ultimo.tipo
            THEN SubstituiUltimo(mantidos, atual)
            ELSE IF /\ atual.tipo \in TiposAbruptos
                    /\ ultimo.tipo \notin TiposAbruptos
                 THEN SubstituiUltimo(mantidos, atual)
                 ELSE mantidos

\* variant: a close abrupt change replaces any event of another kind
PassoFiltroAbruptoSempre(mantidos, atual) ==
    LET ultimo    == mantidos[Len(mantidos)]
        dias_diff == atual.data - ultimo.data
    IN IF dias_diff >= dias_minimos THEN Append(mantidos, atual)
       ELSE IF atual.tipo = ultimo.tipo
            THEN IF atual.tipo \in {"pico", "vale"}
                 THEN IF \/ atual.tipo = "pico" /\ atual.valor > ultimo.valor
                         \/ atual.tipo = "vale" /\ atual.valor < ultimo.valor
                      THEN SubstituiUltimo(mantidos, atual)
                      ELSE mantidos
                 ELSE SubstituiUltimo(mantidos, atual)
            ELSE IF atual.tipo \in TiposAbruptos
                 THEN SubstituiUltimo(mantidos, atual)
                 ELSE mantidos

\* variant: a candidate of a later date is never close
PassoFiltroSoMesmaData(mantidos, atual) ==
    LET ultimo    == mantidos[Len(mantidos)]
        dias_diff == atual.data - ultimo.data
    IN IF dias_diff > 0 THEN Append(mantidos, atual)
       ELSE IF atual.tipo = ultimo.tipo
            THEN IF atual.tipo \in {"pico", "vale"}
                 THEN IF \/ atual.tipo = "pico" /\ atual.valor > ultimo.valor
                         \/ atual.tipo = "vale" /\ atual.valor < ultimo.valor
                      THEN SubstituiUltimo(mantidos, atual)
                      ELSE mantidos
                 ELSE SubstituiUltimo(mantidos, atual)
            ELSE IF /\ atual.tipo \in TiposAbruptos
                    /\ ultimo.tipo \notin TiposAbruptos
                 THEN SubstituiUltimo(mantidos, atual)
                 ELSE mantidos

\* variant: of two close abrupt changes or reversals of one kind the
\* older stays
PassoFiltroMaisAntigo(mantidos, atual) ==
    LET ultimo    == mantidos[Len(mantidos)]
        dias_diff == atual.data - ultimo.data
    IN IF dias_diff >= dias_minimos THEN Append(mantidos, atual)
       ELSE IF atual.tipo = ultimo.tipo
            THEN IF atual.tipo \in {"pico", "vale"}
                 THEN IF \/ atual.tipo = "pico" /\ atual.valor > ultimo.valor
                         \/ atual.tipo = "vale" /\ atual.valor < ultimo.valor
                      THEN SubstituiUltimo(mantidos, atual)
                      ELSE mantidos
                 ELSE mantidos
            ELSE IF /\ atual.tipo \in TiposAbruptos
                    /\ ultimo.tipo \notin TiposAbruptos
                 THEN SubstituiUltimo(mantidos, atual)
                 ELSE mantidos

\* variant: an abrupt change replaces only an event of an earlier date
PassoFiltroSoDatasAnteriores(mantidos, atual) ==
    LET ultimo    == mantidos[Len(mantidos)]
        dias_diff == atual.data - ultimo.data
    IN IF dias_diff >= dias_minimos THEN Append(mantidos, atual)
       ELSE IF atual.tipo = ultimo.tipo
            THEN IF atual.tipo \in {"pico", "vale"}
                 THEN IF \/ atual.tipo = "pico" /\ atual.valor > ultimo.valor
                         \/ atual.tipo = "vale" /\ atual.valor < ultimo.valor
                      THEN SubstituiUltimo(mantidos, atual)
                      ELSE mantidos
                 ELSE SubstituiUltimo(mantidos, atual)
            ELSE IF /\ atual.tipo \in TiposAbruptos
                    /\ ultimo.tipo \notin TiposAbruptos
                    /\ dias_diff > 0
                 THEN SubstituiUltimo(mantidos, atual)
                 ELSE mantidos

\* one iteration of the loop of _filtrar_eventos_proximos
PassoFiltro(mantidos, atual) ==
    LET ultimo    == mantidos[Len(mantidos)]
        dias_diff == atual.data - ultimo.data
    IN IF dias_diff >= dias_minimos THEN Append(mantidos, atual)
       ELSE IF atual.tipo = ultimo.tipo
            THEN IF atual.tipo \in {"pico", "vale"}
                 THEN IF \/ atual.tipo = "pico" /\ atual.valor > ultimo.valor
                         \/ atual.tipo = "vale" /\ atual.valor < ultimo.valor
                      THEN SubstituiUltimo(mantidos, atual)
                      ELSE mantidos
                 ELSE SubstituiUltimo(mantidos, atual)
            ELSE IF /\ atual.tipo \in TiposAbruptos
                    /\ ultimo.tipo \notin TiposAbruptos
                 THEN SubstituiUltimo(mantidos, atual)
                 ELSE mantidos

RECURSIVE FiltroDe(_, _, _)
FiltroDe(evs, i, mantidos) ==
    IF i > Len(evs) THEN mantidos
    ELSE FiltroDe(evs, i + 1, PassoFiltro(mantidos, evs[i]))

\* evs is the date-sorted candidate frame
FiltrarEventosProximos(evs) ==
    IF Len(evs) <= 1 THEN evs ELSE FiltroDe(evs, 2, <<evs[1]>>)

\* ------------------------------------------------------ detectar_eventos
\* the candidates in the order the three rules append them
Candidatos(d, soma, sens) ==
    DetectarPicosVales(d, soma, sens)
    \o DetectarMudancasAbruptas(d, sens)
    \o DetectarTendencias(d, soma, sens)

\* every value detectar_eventos may return for the frame f, with the sum
\* of deviations and the sorted candidate frame that lead to it
ResultadosDeteccao(f, sens) ==
    IF f = <<>>
    THEN { [cands |-> <<>>, evs |-> <<>>, soma |-> 0, ordenados |-> <<>>] }
    ELSE LET d == SortValues(f)
             ResultadosCom(soma) ==
                 LET c == Candidatos(d, soma, sens)
                 IN { [cands |-> c, evs |-> FiltrarEventosProximos(o),
                       soma |-> soma, ordenados |-> o] :
                        o \in OrdensPorData(c) }
         IN UNION { ResultadosCom(soma) : soma \in SomasDesvio(ValoresDe(d)) }

ColunasPadrao == {"data", "valor"}

\* the guard of detectar_eventos: an empty frame or a frame without the
\* date or the value column returns the empty frame at once
ResultadosDetectarEventos(f, cols, sens) ==
    IF f = <<>> \/ "data" \notin cols \/ "valor" \notin cols
    THEN { [cands |-> <<>>, evs |-> <<>>, soma |-> 0, ordenados |-> <<>>] }
    ELSE ResultadosDeteccao(f, sens)

\* variant: the sort and the derived columns are applied to the caller's
\* frame itself
QuadroDoChamadorNoLugar(f, cols) ==
    IF f = <<>> \/ "data" \notin cols \/ "valor" \notin cols
    THEN [linhas |-> f, colunas |-> cols]
    ELSE [linhas  |-> SortValues(f),
          colunas |-> cols \cup {"variacao_pct", "media_movel",
                                 "desvio_padrao"}]

\* the caller's frame after detectar_eventos: the handler sorts and adds
\* its columns on df.copy(), the frame passed in is not written
QuadroDoChamador(f, cols) == [linhas |-> f, colunas |-> cols]

\* rolling(...).std() and sort_values are functions of their input: a call
\* on the same series computes the same deviations, and the same row order
\* for the same candidate frame
MesmaBiblioteca(r, soma, cands, ordenados) ==
    /\ r.soma = soma
    /\ r.cands = cands => r.ordenados = ordenados

\* variant: every call wears the detector's sensitivity down by 0.5
SensibilidadeGasta(sens) == Max2(sens - 5, 0)

\* self.sensibilidade after detectar_eventos: the handler and the three
\* rules only read it
SensibilidadeApos(sens) == sens

\* =========================================================== previsao.py
\* ------------------------------------------------------------- calendar
\* day ordinal 0 is 2017-01-01, a Sunday
Bissexto(ano) == ano % 4 = 0

DiasNoMes(ano, mes) ==
    IF mes = 2 THEN (IF Bissexto(ano) THEN 29 ELSE 28)
    ELSE IF mes \in {4, 6, 9, 11} THEN 30 ELSE 31

\* the days from 2017-01-01 to the first day of the month
DiasAntesDe(ano, mes) ==
    365 * (ano - 2017) + ((ano - 1) \div 4 - 2016 \div 4)
    + <<0, 31, 59, 90, 120, 151, 181, 212, 243, 273, 304, 334>>[mes]
    + (IF mes > 2 /\ Bissexto(ano) THEN 1 ELSE 0)

Data(ord) ==
    LET ano == CHOOSE a \in 2017..(2017 + ord \div 365) :
                  /\ DiasAntesDe(a, 1) <= ord
                  /\ ord < DiasAntesDe(a + 1, 1)
        mes == CHOOSE m \in 1..12 :
                  /\ DiasAntesDe(ano, m) <= ord
                  /\ ord < DiasAntesDe(ano, m) + DiasNoMes(ano, m)
    IN [ano |-> ano, mes |-> mes, dia |-> ord - DiasAntesDe(ano, mes) + 1]

Ordinal(ano, mes, dia) == DiasAntesDe(ano, mes) + dia - 1

\* last day of the month that lies k months after the month of ord
FimDoMes(ord, k) ==
    LET dt == Data(ord)
        m0 == (dt.mes - 1) + k
        a  == dt.ano + (m0 \div 12)
        m  == (m0 % 12) + 1
    IN Ordinal(a, m, DiasNoMes(a, m))

\* the same day of the month k months later, clipped to the month's length
SomaMeses(ord, k) ==
    LET dt == Data(ord)
        m0 == (dt.mes - 1) + k
        a  == dt.ano + (m0 \div 12)
        m  == (m0 % 12) + 1
    IN Ordinal(a, m, Min2(dt.dia, DiasNoMes(a, m)))

EhFimDoMes(ord) == FimDoMes(ord, 0) = ord
DiaDaSemana(ord) == ord % 7          \* 0 = Sunday

\* ------------------------------------------------------- optional values
Nenhum == <<>>
Algum(x) == <<x>>
Valor(o) == o[1]

\* ------------------------------------------------ _detectar_periodicidade
RECURSIVE InsereInt(_, _)
InsereInt(s, x) ==
    IF s = <<>> THEN <<x>>
    ELSE IF x < Head(s) THEN <<x>> \o s
         ELSE <<Head(s)>> \o InsereInt(Tail(s), x)

RECURSIVE OrdenaInts(_)
OrdenaInts(s) ==
    IF s = <<>> THEN <<>> ELSE InsereInt(OrdenaInts(Tail(s)), Head(s))

\* variant: every positive day difference of the frame counts
DiffsPositivosSemLimite(p, i) ==
    SelectSeq([k \in 1..(Len(p) - i + 1) |->
                 p[k + i - 1].ds - p[k + i - 2].ds],
              LAMBDA diff_dias : diff_dias > 0)

\* the positive day differences of rows 1..min(10, len) - 1 (0-based)
RECURSIVE DiffsPositivos(_, _)
DiffsPositivos(p, i) ==
    IF i > Min2(10, Len(p)) THEN <<>>
    ELSE LET diff_dias == p[i].ds - p[i - 1].ds
         IN (IF diff_dias > 0 THEN <<diff_dias>> ELSE <<>>)
            \o DiffsPositivos(p, i + 1)

\* twice np.median(diffs)
MedianaX2(diffs) ==
    LET o == OrdenaInts(diffs)
        n == Len(o)
    IN IF n % 2 = 1 THEN 2 * o[(n + 1) \div 2]
       ELSE o[n \div 2] + o[(n \div 2) + 1]

\* variant: a median on a limit falls into the next class
ClassificaEstrito(mediana_x2) ==
    IF mediana_x2 < 2 * 1 THEN "diaria"
    ELSE IF mediana_x2 < 2 * 7 THEN "semanal"
    ELSE IF mediana_x2 < 2 * 15 THEN "quinzenal"
    ELSE IF mediana_x2 < 2 * 45 THEN "mensal"
    ELSE IF mediana_x2 < 2 * 100 THEN "trimestral"
    ELSE IF mediana_x2 < 2 * 200 THEN "semestral"
    ELSE "anual"

Classifica(mediana_x2) ==
    IF mediana_x2 <= 2 * 1 THEN "diaria"
    ELSE IF mediana_x2 <= 2 * 7 THEN "semanal"
    ELSE IF mediana_x2 <= 2 * 15 THEN "quinzenal"
    ELSE IF mediana_x2 <= 2 * 45 THEN "mensal"
    ELSE IF mediana_x2 <= 2 * 100 THEN "trimestral"
    ELSE IF mediana_x2 <= 2 * 200 THEN "semestral"
    ELSE "anual"

DetectarPeriodicidade(p) ==
    IF Len(p) < 2 THEN "desconhecida"
    ELSE LET diffs == DiffsPositivos(p, 2)
         IN IF diffs = <<>> THEN "desconhecida"
            ELSE Classifica(MedianaX2(diffs))

\* ---------------------------------------------------------- preparar_dados
NaNv == -1          \* a missing value in the caller's frame

RECURSIVE DropNa(_)
DropNa(f) ==
    IF f = <<>> THEN <<>>
    ELSE (IF Head(f).valor = NaNv THEN <<>>
          ELSE <<[ds |-> Head(f).data, y |-> Head(f).valor]>>)
         \o DropNa(Tail(f))

RECURSIVE InsereDs(_, _)
InsereDs(s, r) ==
    IF s = <<>> THEN <<r>>
    ELSE IF r.ds < Head(s).ds THEN <<r>> \o s
         ELSE <<Head(s)>> \o InsereDs(Tail(s), r)

RECURSIVE OrdenaDs(_)
OrdenaDs(s) ==
    IF s = <<>> THEN <<>>
    ELSE InsereDs(OrdenaDs(SubSeq(s, 1, Len(s) - 1)), s[Len(s)])

\* rename, select, dropna, sort_values('ds')
DadosProphet(f) == OrdenaDs(DropNa(f))

\* variant: no guard, the frame goes straight to rename and select, and
\* the selection of a missing column raises
ResultadoPrepararSemGuarda(f, cols, dp, per) ==
    IF "data" \notin cols \/ "valor" \notin cols
    THEN [df_prophet |-> <<>>, dados_preparados |-> dp,
          periodicidade |-> per, levantou |-> TRUE]
    ELSE LET df_preparado == DadosProphet(f)
         IN [df_prophet       |-> df_preparado,
             dados_preparados |-> Algum(df_preparado),
             periodicidade    |-> DetectarPeriodicidade(df_preparado),
             levantou         |-> FALSE]

\* preparar_dados on the frame f with the columns cols, in a session that
\* holds dp and per: what it returns and what the session holds afterwards
ResultadoPreparar(f, cols, dp, per) ==
    IF f = <<>> \/ "data" \notin cols \/ "valor" \notin cols
    THEN [df_prophet |-> <<>>, dados_preparados |-> dp,
          periodicidade |-> per, levantou |-> FALSE]
    ELSE LET df_preparado == DadosProphet(f)
         IN [df_prophet       |-> df_preparado,
             dados_preparados |-> Algum(df_preparado),
             periodicidade    |-> DetectarPeriodicidade(df_preparado),
             levantou         |-> FALSE]

\* ----------------------------------------------------------------- treinar
\* add_seasonality(name, period, fourier_order) on the seasonalities s of
\* the model: a component of the same name is replaced; the period is in
\* hundredths of a day
AddSeasonality(s, name, periodo_x100, fourier_order) ==
    { c \in s : c.name # name }
        \cup { [name |-> name, periodo_x100 |-> periodo_x100,
                fourier_order |-> fourier_order] }

\* variant: biweekly data get the weekly component too
SazonalidadesComQuinzenal(per) ==
    LET s1 == IF per \in {"diaria", "semanal", "quinzenal"}
              THEN AddSeasonality({}, "weekly", 700, 3) ELSE {}
        s2 == IF per \in {"diaria", "semanal", "quinzenal", "mensal"}
              THEN AddSeasonality(s1, "yearly", 36525, 5) ELSE s1
    IN IF per \in {"trimestral", "semestral"}
       THEN AddSeasonality(s2, "yearly", 400, 3) ELSE s2

\* the components treinar adds for the periodicity per of the session
Sazonalidades(per) ==
    LET s1 == IF per \in {"diaria", "semanal"}
              THEN AddSeasonality({}, "weekly", 700, 3) ELSE {}
        s2 == IF per \in {"diaria", "semanal", "quinzenal", "mensal"}
              THEN AddSeasonality(s1, "yearly", 36525, 5) ELSE s1
    IN IF per \in {"trimestral", "semestral"}
       THEN AddSeasonality(s2, "yearly", 400, 3) ELSE s2

\* the model fitted on dfp
ModeloAjustado(dfp, per) ==
    [history       |-> [i \in 1..Len(dfp) |-> dfp[i].ds],
     seasonalities |-> Sazonalidades(per)]

\* variant: the except branch leaves the model object in place
ResultadoTreinarSemLimpar(dfp, per, falhou) ==
    [modelo   |-> Algum(ModeloAjustado(dfp, per)),
     retorno  |-> IF falhou THEN "False" ELSE "True",
     levantou |-> FALSE]

\* variant: the fault of the constructor or of the fit is not caught
ResultadoTreinarSemTry(dfp, per, falhou) ==
    IF falhou
    THEN [modelo |-> Nenhum, retorno |-> "-", levantou |-> TRUE]
    ELSE [modelo   |-> Algum(ModeloAjustado(dfp, per)),
          retorno  |-> "True",
          levantou |-> FALSE]

\* try: Prophet(...); add_seasonality(...); fit(df)  except: modelo = None.
\* falhou: the constructor or the fit raised
ResultadoTreinar(dfp, per, falhou) ==
    IF falhou
    THEN [modelo |-> Nenhum, retorno |-> "False", levantou |-> FALSE]
    ELSE [modelo   |-> Algum(ModeloAjustado(dfp, per)),
          retorno  |-> "True",
          levantou |-> FALSE]

\* Prophet is None when the import failed; fit rejects fewer than 2 rows
FalhaCerta(dfp, disponivel) == ~disponivel \/ Len(dfp) < 2

\* ------------------------------------------------------------------ prever
horizonte_anos == 2

PeriodosPadrao(per) ==
    IF per = "diaria" THEN horizonte_anos * 365
    ELSE IF per = "semanal" THEN horizonte_anos * 52
    ELSE IF per = "quinzenal" THEN horizonte_anos * 26
    ELSE IF per = "mensal" THEN horizonte_anos * 12
    ELSE IF per = "trimestral" THEN horizonte_anos * 4
    ELSE IF per = "semestral" THEN horizonte_anos * 2
    ELSE IF per = "anual" THEN horizonte_anos
    ELSE horizonte_anos * 12

ObterFrequenciaPandas(per) ==
    IF per = "diaria" THEN "D"
    ELSE IF per = "semanal" THEN "W"
    ELSE IF per = "quinzenal" THEN "2W"
    ELSE IF per = "mensal" THEN "M"
    ELSE IF per = "trimestral" THEN "Q"
    ELSE IF per = "semestral" THEN "6M"
    ELSE IF per = "anual" THEN "Y"
    ELSE "M"

\* pandas offsets behind the frequency strings: week anchored on Sunday,
\* month end, quarter end (Mar/Jun/Sep/Dec), year end
NoOffset(ord, freq) ==
    IF freq = "D" THEN TRUE
    ELSE IF freq \in {"W", "2W"} THEN DiaDaSemana(ord) = 0
    ELSE IF freq \in {"M", "6M"} THEN EhFimDoMes(ord)
    ELSE IF freq = "Q" THEN EhFimDoMes(ord) /\ Data(ord).mes % 3 = 0
    ELSE EhFimDoMes(ord) /\ Data(ord).mes = 12

\* first on-offset date after a date that is not on the offset
RollForward(ord, freq) ==
    IF freq \in {"W", "2W"} THEN ord + (7 - DiaDaSemana(ord))
    ELSE IF freq \in {"M", "6M"} THEN FimDoMes(ord, 0)
    ELSE IF freq = "Q" THEN FimDoMes(ord, 2 - ((Data(ord).mes - 1) % 3))
    ELSE FimDoMes(ord, 12 - Data(ord).mes)

\* an on-offset date plus one step of the frequency
Avanca(ord, freq) ==
    IF freq = "D" THEN ord + 1
    ELSE IF freq = "W" THEN ord + 7
    ELSE IF freq = "2W" THEN ord + 14
    ELSE IF freq = "M" THEN FimDoMes(ord, 1)
    ELSE IF freq = "Q" THEN FimDoMes(ord, 3)
    ELSE IF freq = "6M" THEN FimDoMes(ord, 6)
    ELSE FimDoMes(ord, 12)

RECURSIVE DatasAPartirDe(_, _, _)
DatasAPartirDe(ord, n, freq) ==
    IF n = 0 THEN <<>>
    ELSE <<ord>> \o DatasAPartirDe(Avanca(ord, freq), n - 1, freq)

\* make_future_dataframe(periods, freq) without the history:
\* date_range(start=last_date, periods=periods + 1, freq), the dates after
\* last_date, the first periods of them
DatasFuturas(last_date, periods, freq) ==
    DatasAPartirDe(IF NoOffset(last_date, freq) THEN Avanca(last_date, freq)
                   ELSE RollForward(last_date, freq),
                   periods, freq)

LarguraIntervalo == 5

\* predict(df_futuro): one row per date; the fitted values are the model's
\* own, here base, base + 1, ... with a band of LarguraIntervalo
Predicao(datas, base) ==
    [i \in 1..Len(datas) |-> [ds         |-> datas[i],
                              yhat       |-> base + i - 1,
                              yhat_lower |-> base + i - 1 - LarguraIntervalo,
                              yhat_upper |-> base + i - 1 + LarguraIntervalo]]

\* periodos: Nenhum or Algum(n); falha: make_future_dataframe or predict raised
ResultadoPrever(mod, per, periodos, base, falha) ==
    IF mod = Nenhum
    THEN [previsao |-> Nenhum, levantou |-> FALSE]
    ELSE IF falha
         THEN [previsao |-> Nenhum, levantou |-> FALSE]
         ELSE LET n == IF periodos = Nenhum THEN PeriodosPadrao(per)
                       ELSE Valor(periodos)
                  h == Valor(mod).history
              IN [previsao |->
                    Algum(Predicao(h \o DatasFuturas(h[Len(h)], n,
                                         ObterFrequenciaPandas(per)), base)),
                  levantou |-> FALSE]

\* ---------------------------------------------------- obter_dados_previsao
RECURSIVE MaxDs(_)
MaxDs(dp) ==
    IF Len(dp) = 1 THEN dp[1].ds ELSE Max2(Head(dp).ds, MaxDs(Tail(dp)))

\* variant: the last historical date itself counts as forecast
TipoDaLinhaEstrito(data, ultima_data_historico) ==
    IF data < ultima_data_historico THEN "historico" ELSE "previsao"

TipoDaLinha(data, ultima_data_historico) ==
    IF data <= ultima_data_historico THEN "historico" ELSE "previsao"

\* pd.merge(df_saida, df_historico, on='data', how='left') followed by the
\* replacement of valor by valor_real where it is not NaN: one output row
\* per matching historical row, the row itself when none matches
\* variant: the bounds of a matched row collapse onto the actual value
MesclaLinhaComLimites(linha, dp) ==
    LET iguais == SelectSeq(dp, LAMBDA h : h.ds = linha.data)
    IN IF iguais = <<>> THEN <<linha>>
       ELSE [i \in 1..Len(iguais) |->
                [linha EXCEPT !.valor = iguais[i].y,
                              !.limite_inferior = iguais[i].y,
                              !.limite_superior = iguais[i].y]]

MesclaLinha(linha, dp) ==
    LET iguais == SelectSeq(dp, LAMBDA h : h.ds = linha.data)
    IN IF iguais = <<>> THEN <<linha>>
       ELSE [i \in 1..Len(iguais) |-> [linha EXCEPT !.valor = iguais[i].y]]

RECURSIVE MesclaHistorico(_, _)
MesclaHistorico(linhas, dp) ==
    IF linhas = <<>> THEN <<>>
    ELSE MesclaLinha(Head(linhas), dp) \o MesclaHistorico(Tail(linhas), dp)

LimiteInferior(linha_prev) == linha_prev.yhat_lower
LimiteSuperior(linha_prev) == linha_prev.yhat_upper

\* variant: without incluir_historico the labelled frame is returned whole
DadosPrevisaoSemFiltro(prev, dp, incluir_historico) ==
    LET temHistorico == dp # Nenhum /\ Valor(dp) # <<>>
        ultima == MaxDs(Valor(dp))
        base == [i \in 1..Len(prev) |->
                    [data            |-> prev[i].ds,
                     valor           |-> prev[i].yhat,
                     limite_inferior |-> LimiteInferior(prev[i]),
                     limite_superior |-> LimiteSuperior(prev[i]),
                     tipo |-> IF temHistorico
                              THEN TipoDaLinha(prev[i].ds, ultima)
                              ELSE "previsao"]]
    IN SortValues(IF ~temHistorico THEN base
                  ELSE IF incluir_historico
                       THEN MesclaHistorico(base, Valor(dp))
                       ELSE base)

\* prev: the forecast frame (not None, not empty); dp: dados_preparados
DadosPrevisao(prev, dp, incluir_historico) ==
    LET temHistorico == dp # Nenhum /\ Valor(dp) # <<>>
        ultima == MaxDs(Valor(dp))
        base == [i \in 1..Len(prev) |->
                    [data            |-> prev[i].ds,
                     valor           |-> prev[i].yhat,
                     limite_inferior |-> LimiteInferior(prev[i]),
                     limite_superior |-> LimiteSuperior(prev[i]),
                     tipo |-> IF temHistorico
                              THEN TipoDaLinha(prev[i].ds, ultima)
                              ELSE "previsao"]]
    IN SortValues(IF ~temHistorico THEN base
                  ELSE IF incluir_historico
                       THEN MesclaHistorico(base, Valor(dp))
                       ELSE SelectSeq(base, LAMBDA r : r.tipo = "previsao"))

\* ----------------------------------------------------------- the system
InitEventos ==
    /\ eventos = <<>>
    /\ candidatos = <<>>
    /\ chamada = "nenhuma"
    /\ df_eventos = <<>>
    /\ desvio = 0
    /\ eventos_anteriores = Nenhum

\* the filter and the pipeline are not running
InitFora ==
    /\ eventos_filtrados = <<>>
    /\ i_filtro = 0
    /\ dados_indicadores = <<>>
    /\ previsores = <<>>
    /\ previsoes = <<>>
    /\ eventos_indicadores = <<>>

InitPrevisor ==
    /\ dados_preparados = Nenhum
    /\ periodicidade = "None"
    /\ modelo = Nenhum
    /\ op = "init"
    /\ retorno = "-"
    /\ levantou = FALSE
    /\ previsao = Nenhum
    /\ saida = <<>>
    /\ incluir = TRUE
    /\ metricas = Nenhum
    /\ dobras = {}
    /\ dobras_falhas = {}
    /\ treinou = FALSE
    /\ df_prophet = <<>>

\* DetectorEventos(sensibilidade) under test; no forecasting session in use
Init ==
    /\ df = <<>>
    /\ colunas = ColunasPadrao
    /\ InitEventos
    /\ InitPrevisor
    /\ InitFora
    /\ sensibilidade \in Sensibilidades
    /\ PROPHET_AVAILABLE = TRUE

\* the ingestion layer hands over one more observation
AcrescentarPonto ==
    /\ Len(df) < MaxLen
    /\ \E valor \in Valores, passo \in Intervalos :
          df' = Append(df, [data  |-> IF df = <<>> THEN 0
                                     ELSE df[Len(df)].data + passo,
                            valor |-> valor])
    /\ eventos' = <<>>
    /\ candidatos' = <<>>
    /\ chamada' = "nenhuma"
    /\ df_eventos' = <<>>
    /\ desvio' = 0
    /\ eventos_anteriores' = Nenhum
    /\ UNCHANGED <<colunas, sensibilidade, varsPrevisor, varsFora>>

DetectarEventos ==
    /\ \E r \in ResultadosDetectarEventos(df, colunas, sensibilidade) :
          /\ chamada # "nenhuma"
                => MesmaBiblioteca(r, desvio, candidatos, df_eventos)
          /\ eventos' = r.evs
          /\ candidatos' = r.cands
          /\ df_eventos' = r.ordenados
          /\ desvio' = r.soma
    /\ eventos_anteriores' = IF chamada = "nenhuma" THEN Nenhum
                             ELSE Algum(eventos)
    /\ chamada' = IF chamada = "nenhuma" THEN "detectar" ELSE "repetida"
    /\ LET q == QuadroDoChamador(df, colunas)
       IN /\ df' = q.linhas
          /\ colunas' = q.colunas
    /\ sensibilidade' = SensibilidadeApos(sensibilidade)
    /\ levantou' = FALSE
    /\ UNCHANGED <<varsSessao, varsRetorno, varsFora>>

\* one detection per state of the series
NextEventos ==
    \/ AcrescentarPonto
    \/ chamada = "nenhuma" /\ DetectarEventos

SpecEventos == Init /\ [][NextEventos]_vars

\* ------------------------------------------------- the forecasting session
\* frames the caller may pass to preparar_dados
Inicios == {364, 367}       \* 2017-12-31 (Sunday, year end), 2018-01-03
Cadencias == {"diaria", "semanal", "quinzenal", "mensal", "trimestral",
              "semestral", "anual"}
BasesPrevisao == {19}

DataDaLinha(inicio, cad, k) ==
    IF cad = "diaria" THEN inicio + k
    ELSE IF cad = "semanal" THEN inicio + 7 * k
    ELSE IF cad = "quinzenal" THEN inicio + 14 * k
    ELSE IF cad = "mensal" THEN SomaMeses(inicio, k)
    ELSE IF cad = "trimestral" THEN SomaMeses(inicio, 3 * k)
    ELSE IF cad = "semestral" THEN SomaMeses(inicio, 6 * k)
    ELSE SomaMeses(inicio, 12 * k)

\* n rows at the cadence cad with values 10, 20, ...; the last value is
\* missing when nulo
SerieDeEntrada(inicio, cad, n, nulo) ==
    [i \in 1..n |-> [data  |-> DataDaLinha(inicio, cad, i - 1),
                     valor |-> IF nulo /\ i = n THEN NaNv ELSE 10 * i]]

\* two observations of the same day
SerieDoMesmoDia == <<[data |-> 367, valor |-> 10], [data |-> 367, valor |-> 20]>>

\* complete series at every cadence, monthly series whose last value is
\* missing, and a series within a single day
Entradas ==
    { SerieDeEntrada(inicio, cad, n, FALSE) :
        inicio \in Inicios, cad \in Cadencias, n \in 0..MaxHist }
    \cup { SerieDeEntrada(inicio, "mensal", n, TRUE) :
              inicio \in Inicios, n \in 1..MaxHist }
    \cup { SerieDoMesmoDia }

SemRetorno ==
    /\ previsao' = Nenhum
    /\ saida' = <<>>
    /\ incluir' = TRUE
    /\ metricas' = Nenhum
    /\ dobras' = {}
    /\ dobras_falhas' = {}

\* preparar_dados ends with the result r
PrepararDadosFim(r) ==
    /\ df_prophet' = r.df_prophet
    /\ dados_preparados' = r.dados_preparados
    /\ periodicidade' = r.periodicidade
    /\ levantou' = r.levantou
    /\ op' = "preparar"
    /\ retorno' = "-"
    /\ SemRetorno
    /\ UNCHANGED <<PROPHET_AVAILABLE, modelo, treinou, varsEventos, varsFora>>

\* preparar_dados(f), f a frame with the columns cols
PrepararDadosCom(f, cols) ==
    PrepararDadosFim(ResultadoPreparar(f, cols, dados_preparados,
                                       periodicidade))

\* what preparar_dados makes of the input series that have rows: with both
\* columns present, nothing of it depends on what the session held before
PreparosDasEntradas ==
    { ResultadoPreparar(f, ColunasPadrao, Nenhum, "None") :
        f \in Entradas \ {<<>>} }

\* the session is handed one of the input series: the empty one, or one
\* that has rows
PrepararDados ==
    \/ PrepararDadosCom(<<>>, ColunasPadrao)
    \/ \E r \in PreparosDasEntradas : PrepararDadosFim(r)

\* variant: a train without data forgets the fitted model
TreinarLimpaSemDados ==
    /\ IF dados_preparados = Nenhum \/ Valor(dados_preparados) = <<>>
       THEN /\ retorno' = "False"
            /\ levantou' = FALSE
            /\ modelo' = Nenhum
            /\ UNCHANGED treinou
       ELSE \E falhou \in BOOLEAN :
              /\ FalhaCerta(Valor(dados_preparados), PROPHET_AVAILABLE)
                    => falhou
              /\ LET r == ResultadoTreinar(Valor(dados_preparados),
                                            periodicidade, falhou)
                 IN /\ modelo' = r.modelo
                    /\ retorno' = r.retorno
                    /\ levantou' = r.levantou
                    /\ treinou' = (treinou \/ r.retorno = "True")
    /\ op' = "treinar"
    /\ SemRetorno
    /\ df_prophet' = <<>>
    /\ UNCHANGED <<PROPHET_AVAILABLE, dados_preparados, periodicidade,
                   varsEventos, varsFora>>

\* treinar() on the data the session holds
Treinar ==
    /\ IF dados_preparados = Nenhum \/ Valor(dados_preparados) = <<>>
       THEN /\ retorno' = "False"
            /\ levantou' = FALSE
            /\ UNCHANGED <<modelo, treinou>>
       ELSE \E falhou \in BOOLEAN :
              /\ FalhaCerta(Valor(dados_preparados), PROPHET_AVAILABLE)
                    => falhou
              /\ LET r == ResultadoTreinar(Valor(dados_preparados),
                                            periodicidade, falhou)
                 IN /\ modelo' = r.modelo
                    /\ retorno' = r.retorno
                    /\ levantou' = r.levantou
                    /\ treinou' = (treinou \/ r.retorno = "True")
    /\ op' = "treinar"
    /\ SemRetorno
    /\ df_prophet' = <<>>
    /\ UNCHANGED <<PROPHET_AVAILABLE, dados_preparados, periodicidade,
                   varsEventos, varsFora>>

\* the frame sizes the model follows
PeriodosPermitidos(periodos) ==
    modelo # Nenhum =>
        (IF periodos = Nenhum THEN PeriodosPadrao(periodicidade)
         ELSE Valor(periodos)) <= MaxPeriodos

ArgsPeriodos == {Nenhum} \cup { Algum(n) : n \in 1..MaxPeriodos }

Prever ==
    /\ \E periodos \in ArgsPeriodos, base \in BasesPrevisao,
          falha \in BOOLEAN :
          /\ PeriodosPermitidos(periodos)
          /\ LET r == ResultadoPrever(modelo, periodicidade, periodos,
                                      base, falha)
             IN /\ previsao' = r.previsao
                /\ levantou' = r.levantou
    /\ op' = "prever"
    /\ retorno' = "-"
    /\ saida' = <<>>
    /\ incluir' = TRUE
    /\ metricas' = Nenhum
    /\ dobras' = {}
    /\ dobras_falhas' = {}
    /\ df_prophet' = <<>>
    /\ UNCHANGED <<varsSessao, treinou, varsEventos, varsFora>>

\* arg: the previsao argument, None or the frame prever just returned
ObterDadosPrevisao ==
    /\ \E arg \in {Nenhum, previsao}, incluir_historico \in BOOLEAN,
          base \in BasesPrevisao, falha \in BOOLEAN :
          /\ arg = Nenhum => PeriodosPermitidos(Nenhum)
          /\ LET r == IF arg = Nenhum
                      THEN ResultadoPrever(modelo, periodicidade, Nenhum,
                                           base, falha)
                      ELSE [previsao |-> arg, levantou |-> FALSE]
             IN /\ previsao' = r.previsao
                /\ levantou' = r.levantou
                /\ saida' = IF r.previsao = Nenhum \/ Valor(r.previsao) = <<>>
                            THEN <<>>
                            ELSE DadosPrevisao(Valor(r.previsao),
                                               dados_preparados,
                                               incluir_historico)
          /\ incluir' = incluir_historico
    /\ op' = "obter"
    /\ retorno' = "-"
    /\ metricas' = Nenhum
    /\ dobras' = {}
    /\ dobras_falhas' = {}
    /\ df_prophet' = <<>>
    /\ UNCHANGED <<varsSessao, treinou, varsEventos, varsFora>>

\* cross_validation(...) raises when the data do not cover one fold and
\* when the fit of any fold raises; performance_metrics aggregates the
\* folds it is given
ValidacaoCruzada(n_dobras, falhas) ==
    IF n_dobras = 0 \/ falhas # {}
    THEN [levantou |-> TRUE, dobras |-> {}]
    ELSE [levantou |-> FALSE, dobras |-> 1..n_dobras]

\* try: cross_validation; performance_metrics   except: return {}
ResultadoAvaliar(n_dobras, falhas) ==
    LET cv == ValidacaoCruzada(n_dobras, falhas)
    IN IF cv.levantou THEN Nenhum ELSE Algum([dobras |-> cv.dobras])

AvaliarModelo ==
    /\ IF \/ modelo = Nenhum
          \/ dados_preparados = Nenhum
          \/ Valor(dados_preparados) = <<>>
       THEN /\ metricas' = Nenhum
            /\ dobras' = {}
            /\ dobras_falhas' = {}
       ELSE \E n_dobras \in 0..MaxDobras :
              \E falhas \in SUBSET (1..n_dobras) :
                 /\ metricas' = ResultadoAvaliar(n_dobras, falhas)
                 /\ dobras' = 1..n_dobras
                 /\ dobras_falhas' = falhas
    /\ op' = "avaliar"
    /\ retorno' = "-"
    /\ levantou' = FALSE
    /\ previsao' = Nenhum
    /\ saida' = <<>>
    /\ incluir' = TRUE
    /\ df_prophet' = <<>>
    /\ UNCHANGED <<varsSessao, treinou, varsEventos, varsFora>>

NextPrevisor ==
    \/ PrepararDados
    \/ Treinar
    \/ Prever
    \/ ObterDadosPrevisao
    \/ AvaliarModelo

\* a forecasting session; the detector (default sensitivity 1.5) is idle
InitSessao ==
    /\ df = <<>>
    /\ colunas = ColunasPadrao
    /\ InitEventos
    /\ InitPrevisor
    /\ InitFora
    /\ sensibilidade = 15
    /\ PROPHET_AVAILABLE \in BOOLEAN

SpecPrevisor == InitSessao /\ [][NextPrevisor]_vars

\* ------------------------------------------------- one frame, both handlers
\* the frames a caller may hold: up to MaxQuadro rows of distinct dates in
\* any order, with or without the date and the value column
DatasDoQuadro == {0, 10, 41}

RECURSIVE QuadrosDe(_)
QuadrosDe(n) ==
    IF n = 0 THEN {<<>>}
    ELSE { Append(q, [data |-> d, valor |-> v]) :
             q \in QuadrosDe(n - 1), d \in DatasDoQuadro, v \in Valores }

Quadros ==
    { q \in UNION { QuadrosDe(n) : n \in 0..MaxQuadro } :
        \A i, j \in 1..Len(q) : i # j => q[i].data # q[j].data }

ColunasPossiveis == {ColunasPadrao, {"data"}, {"valor"}}

\* a caller holding one frame and one detector, with a fresh session
InitChamador ==
    /\ df \in Quadros
    /\ colunas \in ColunasPossiveis
    /\ InitEventos
    /\ InitPrevisor
    /\ InitFora
    /\ sensibilidade \in Sensibilidades
    /\ PROPHET_AVAILABLE = TRUE

\* the caller hands its frame to the session
PrepararQuadro == PrepararDadosCom(df, colunas)

NextChamador == DetectarEventos \/ PrepararQuadro

SpecChamador == InitChamador /\ [][NextChamador]_vars

\* ------------------------------------------------- the filter, step by step
\* the candidates one detector can report at one date: the filter reads the
\* value of peaks and valleys only
CandidatosEm(d) ==
    { [data |-> d, valor |-> v, tipo |-> t] :
        v \in Valores, t \in {"pico", "vale"} }
    \cup { [data |-> d, valor |-> 10, tipo |-> t] :
              t \in Tipos \ {"pico", "vale"} }

\* days from one candidate to the next: two steps of less than 30 days
\* can span 30 days or more
IntervalosFiltro == Intervalos \cup {20}

\* the detectors have reported nothing yet and the filter has not been
\* entered
InitFiltro ==
    /\ df = <<>>
    /\ colunas = ColunasPadrao
    /\ sensibilidade = 15
    /\ eventos = <<>>
    /\ candidatos = <<>>
    /\ chamada = "nenhuma"
    /\ desvio = 0
    /\ eventos_anteriores = Nenhum
    /\ InitPrevisor
    /\ PROPHET_AVAILABLE = TRUE
    /\ dados_indicadores = <<>>
    /\ previsores = <<>>
    /\ previsoes = <<>>
    /\ eventos_indicadores = <<>>
    /\ df_eventos = <<>>
    /\ eventos_filtrados = <<>>
    /\ i_filtro = 0

\* one more row of the date-ordered frame of candidates, of any kind, at
\* the first date or a gap after the last row
AcrescentarCandidato ==
    /\ i_filtro = 0
    /\ Len(df_eventos) < MaxEventos
    /\ \E c \in IF df_eventos = <<>> THEN CandidatosEm(0)
                 ELSE UNION { CandidatosEm(
                                 df_eventos[Len(df_eventos)].data + passo) :
                              passo \in IntervalosFiltro } :
          df_eventos' = Append(df_eventos, c)
    /\ UNCHANGED <<df, colunas, sensibilidade, eventos, candidatos, chamada,
                   desvio, eventos_anteriores, varsPrevisor, varsFora>>

\* _filtrar_eventos_proximos is entered with the frame: a frame of at most
\* one event is returned as it is, otherwise the first event is kept and
\* the loop starts at index 1
EntrarNoFiltro ==
    /\ i_filtro = 0
    /\ df_eventos # <<>>
    /\ eventos_filtrados' = IF Len(df_eventos) <= 1 THEN df_eventos
                            ELSE <<df_eventos[1]>>
    /\ i_filtro' = 1
    /\ UNCHANGED <<varsEventos, varsPrevisor, varsPipeline>>

\* the loop body for the 0-based index i_filtro
PassoDoFiltro ==
    /\ i_filtro >= 1
    /\ i_filtro < Len(df_eventos)
    /\ eventos_filtrados' =
          PassoFiltro(eventos_filtrados, df_eventos[i_filtro + 1])
    /\ i_filtro' = i_filtro + 1
    /\ UNCHANGED <<varsEventos, varsPrevisor, varsPipeline>>

NextFiltro ==
    \/ AcrescentarCandidato
    \/ EntrarNoFiltro
    \/ PassoDoFiltro

SpecFiltro == InitFiltro /\ [][NextFiltro]_vars

\* ------------------------------------------------------- the example series
\* the series of main: month-end dates from January 2020, a level of 100
\* with the value 150 at index 20 and the value 70 at index 40 (0-based)
PeriodosCenario == 100
NivelCenario == 100
IndicePico == 20
ValorPico == 150
IndiceVale == 40
ValorVale == 70

\* row i (0-based) of the example series
LinhaCenario(i) ==
    [data  |-> FimDoMes(Ordinal(2020, 1, 1), i),
     valor |-> IF i = IndicePico THEN ValorPico
               ELSE IF i = IndiceVale THEN ValorVale
               ELSE NivelCenario]

\* sensitivities 1.0 and 10.0
SensibilidadesCenario == {10, 100}

InitCenario ==
    /\ df = <<>>
    /\ colunas = ColunasPadrao
    /\ InitEventos
    /\ InitPrevisor
    /\ InitFora
    /\ sensibilidade \in SensibilidadesCenario
    /\ PROPHET_AVAILABLE = TRUE

\* the next month of the example series arrives
AcrescentarMes ==
    /\ Len(df) < PeriodosCenario
    /\ df' = Append(df, LinhaCenario(Len(df)))
    /\ eventos' = <<>>
    /\ candidatos' = <<>>
    /\ chamada' = "nenhuma"
    /\ df_eventos' = <<>>
    /\ desvio' = 0
    /\ eventos_anteriores' = Nenhum
    /\ UNCHANGED <<colunas, sensibilidade, varsPrevisor, varsFora>>

NextCenario ==
    \/ AcrescentarMes
    \/ chamada = "nenhuma" /\ DetectarEventos

SpecCenario == InitCenario /\ [][NextCenario]_vars

\* ------------------------------------------------ series of given spacing
\* day differences on and next to the limits of the classifier; 0 is a
\* repeated date
Deltas == {0, 1, 2, 7, 8, 15, 16, 45, 46, 100, 101, 200, 201}

RECURSIVE SeriesDeDeltas(_)
SeriesDeDeltas(n) ==
    IF n = 0 THEN {<<>>}
    ELSE IF n = 1 THEN {<<[data |-> 0, valor |-> 10]>>}
    ELSE { Append(q, [data |-> q[Len(q)].data + d, valor |-> 10]) :
             q \in SeriesDeDeltas(n - 1), d \in Deltas }

Invertida(q) == [i \in 1..Len(q) |-> q[Len(q) + 1 - i]]

\* oldest first or newest first
SeriesEspacadas ==
    LET asc == UNION { SeriesDeDeltas(n) : n \in 0..MaxDatas }
    IN asc \cup { Invertida(q) : q \in asc }

\* a fresh session and a caller holding one series
InitClassificador ==
    /\ df \in SeriesEspacadas
    /\ colunas = ColunasPadrao
    /\ InitEventos
    /\ InitPrevisor
    /\ InitFora
    /\ sensibilidade = 15
    /\ PROPHET_AVAILABLE = TRUE

SpecClassificador == InitClassificador /\ [][PrepararQuadro]_vars

\* ------------------------------------------------------------ the pipeline
\* gerar_previsoes_para_indicadores and detectar_eventos_indicadores, one
\* invocation per indicator, the invocations interleaved step by step
Indicadores == {"ipca", "selic"}

\* n rows at the cadence cad: level 10, last value 50
SerieDoIndicador(cad, n) ==
    [i \in 1..n |-> [data  |-> DataDaLinha(367, cad, i - 1),
                     valor |-> IF i = n THEN 50 ELSE 10]]

SeriesDoPipeline ==
    { SerieDoIndicador(cad, n) :
        cad \in {"mensal", "anual"}, n \in {0, 1, 2, MaxLen} }

\* PrevisorSeriesTemporal(horizonte_anos=horizonte_anos)
NovaSessao ==
    [dados_preparados |-> Nenhum, periodicidade |-> "None", modelo |-> Nenhum]

\* variant: one session object serves every indicator
SessaoPartilhada(x) == CHOOSE y \in Indicadores : TRUE

\* the session an invocation works on: the previsor it created itself
SessaoDe(x) == x

InitPipeline ==
    /\ dados_indicadores \in [Indicadores -> SeriesDoPipeline]
    /\ previsores = [x \in Indicadores |->
                        [pc           |-> "inicio",
                         detectado    |-> FALSE,
                         sessao       |-> NovaSessao,
                         df_preparado |-> <<>>,
                         previsao     |-> Nenhum,
                         falhas       |-> {}]]
    /\ previsoes = [x \in Indicadores |-> Nenhum]
    /\ eventos_indicadores = [x \in Indicadores |-> Nenhum]

\* one statement of the loop body of gerar_previsoes_para_indicadores for
\* the indicator x
PassoPrevisao(x) ==
    LET inv == previsores[x]
        s   == SessaoDe(x)
        ses == previsores[s].sessao
        f   == dados_indicadores[x]
    IN
    /\ inv.pc # "fim"
    /\ IF inv.pc = "inicio"
       THEN /\ previsores' =
                  IF f = <<>>
                  THEN [previsores EXCEPT ![x].pc = "fim"]
                  ELSE [previsores EXCEPT ![s].sessao = NovaSessao,
                                          ![x].pc = "preparar"]
            /\ UNCHANGED previsoes
       ELSE IF inv.pc = "preparar"
       THEN /\ LET r == ResultadoPreparar(f, ColunasPadrao,
                                          ses.dados_preparados,
                                          ses.periodicidade)
               IN previsores' =
                    [previsores EXCEPT
                       ![s].sessao.dados_preparados = r.dados_preparados,
                       ![s].sessao.periodicidade = r.periodicidade,
                       ![x].df_preparado = r.df_prophet,
                       ![x].pc = "treinar"]
            /\ UNCHANGED previsoes
       ELSE IF inv.pc = "treinar"
       THEN /\ IF inv.df_preparado = <<>>
               THEN previsores' = [previsores EXCEPT ![x].pc = "fim"]
               ELSE \E falhou \in BOOLEAN :
                      /\ FalhaCerta(inv.df_preparado, PROPHET_AVAILABLE)
                            => falhou
                      /\ LET r == ResultadoTreinar(inv.df_preparado,
                                                    previsores[s].sessao
                                                        .periodicidade,
                                                    falhou)
                         IN previsores' =
                              [previsores EXCEPT
                                 ![s].sessao.modelo = r.modelo,
                                 ![x].falhas =
                                     IF falhou THEN @ \cup {"treinar"} ELSE @,
                                 ![x].pc = IF r.retorno = "True"
                                           THEN "prever" ELSE "fim"]
            /\ UNCHANGED previsoes
       ELSE IF inv.pc = "prever"
       THEN /\ \E base \in BasesPrevisao, falha \in BOOLEAN :
                  LET r == ResultadoPrever(ses.modelo, ses.periodicidade,
                                           Nenhum, base, falha)
                  IN previsores' =
                       [previsores EXCEPT
                          ![x].previsao = r.previsao,
                          ![x].falhas =
                              IF falha THEN @ \cup {"prever"} ELSE @,
                          ![x].pc = IF r.previsao = Nenhum
                                    THEN "fim" ELSE "obter"]
            /\ UNCHANGED previsoes
       ELSE \E erro \in BOOLEAN :
              /\ previsores' =
                    [previsores EXCEPT
                       ![x].falhas = IF erro THEN @ \cup {"obter"} ELSE @,
                       ![x].pc = "fim"]
              /\ previsoes' =
                    IF erro THEN previsoes
                    ELSE [previsoes EXCEPT
                            ![x] = Algum(DadosPrevisao(Valor(inv.previsao),
                                                       ses.dados_preparados,
                                                       TRUE))]
    /\ UNCHANGED <<dados_indicadores, eventos_indicadores, varsEventos,
                   varsPrevisor, varsFiltro>>

\* the loop body of detectar_eventos_indicadores for the indicator x, with
\* the detector the function created
DetectarIndicador(x) ==
    /\ ~previsores[x].detectado
    /\ \E r \in ResultadosDetectarEventos(dados_indicadores[x],
                                          ColunasPadrao, sensibilidade) :
          eventos_indicadores' =
              IF dados_indicadores[x] = <<>> \/ r.evs = <<>>
              THEN eventos_indicadores
              ELSE [eventos_indicadores EXCEPT ![x] = Algum(r.evs)]
    /\ sensibilidade' = SensibilidadeApos(sensibilidade)
    /\ previsores' = [previsores EXCEPT ![x].detectado = TRUE]
    /\ UNCHANGED <<df, colunas, eventos, candidatos, chamada, df_eventos,
                   desvio, eventos_anteriores, dados_indicadores, previsoes,
                   varsPrevisor, varsFiltro>>

NextPipeline ==
    \E x \in Indicadores : PassoPrevisao(x) \/ DetectarIndicador(x)

\* DetectorEventos() of the pipeline: default sensitivity
InitIndicadores ==
    /\ df = <<>>
    /\ colunas = ColunasPadrao
    /\ InitEventos
    /\ InitPrevisor
    /\ eventos_filtrados = <<>>
    /\ i_filtro = 0
    /\ InitPipeline
    /\ sensibilidade = 15
    /\ PROPHET_AVAILABLE \in BOOLEAN

SpecPipeline == InitIndicadores /\ [][NextPipeline]_vars

\* ================================================================= claims
DatasDe(evs) == { evs[i].data : i \in 1..Len(evs) }

\* C1: in the list detectar_eventos returns, no two events of the same
\* kind have dates less than 30 days apart.
C1_MesmoTipoEspacado ==
    chamada = "detectar" =>
        \A j \in 2..Len(eventos) : \A i \in 1..(j - 1) :
            eventos[i].tipo = eventos[j].tipo
                => Abs(eventos[j].data - eventos[i].data) >= 30

\* two same-kind candidates were closer than 30 days and two or more
\* events were returned
C1_Testemunha ==
    /\ chamada = "detectar"
    /\ Len(eventos) >= 2
    /\ \E i, j \in 1..Len(candidatos) :
          /\ i # j
          /\ candidatos[i].tipo = candidatos[j].tipo
          /\ Abs(candidatos[i].data - candidatos[j].data) < 30

\* C2: every returned event carries a date of the input series and the
\* returned events are in non-decreasing date order.
C2_DatasDaSerieEmOrdem ==
    chamada = "detectar" =>
        /\ DatasDe(eventos) \subseteq DatasDe(df)
        /\ \A i \in 1..(Len(eventos) - 1) :
              eventos[i].data <= eventos[i + 1].data

\* the rules produced their candidates out of date order and at least two
\* events were returned
C2_Testemunha ==
    /\ chamada = "detectar"
    /\ Len(eventos) >= 2
    /\ \E i \in 1..(Len(candidatos) - 1) :
          candidatos[i].data > candidatos[i + 1].data

\* Scenario B: the series 10, 50, 10 handed to a detector of sensitivity 0
CenarioB ==
    /\ chamada = "detectar"
    /\ sensibilidade = 0
    /\ ValoresDe(df) = <<10, 50, 10>>

\* C3 as stated: Scenario B returns exactly one event, a peak dated at the
\* middle point.
C3_Original ==
    CenarioB =>
        /\ Len(eventos) = 1
        /\ eventos[1].tipo = "pico"
        /\ eventos[1].data = df[2].data

\* C3 amended: in Scenario B the peak rule yields exactly one candidate, at
\* the middle point, but the returned list holds no peak: its first event
\* is the sharp increase of the middle date, followed by the sharp decrease
\* of the last date exactly when that date is 30 days or more later.
C3_CenarioBSemPico ==
    CenarioB =>
        /\ SelectSeq(candidatos, LAMBDA e : e.tipo = "pico")
              = <<Evento(df[2], "pico")>>
        /\ eventos =
              <<Evento(df[2], "aumento_abrupto")>>
              \o (IF df[3].data - df[2].data >= 30
                  THEN <<Evento(df[3], "queda_abrupta")>> ELSE <<>>)

C3_Testemunha ==
    /\ CenarioB
    /\ Len(eventos) = 1
    /\ \E i \in 1..Len(candidatos) : candidatos[i].tipo = "pico"

\* ---------------------------------------------------------------- merge
LinhasDe(seq) == { seq[i] : i \in 1..Len(seq) }

TemHistorico == dados_preparados # Nenhum /\ Valor(dados_preparados) # <<>>

\* obter_dados_previsao returned a frame built from the forecast previsao
Mesclou == op = "obter" /\ previsao # Nenhum

\* the session's model was fitted on the series now prepared
ModeloDosDados ==
    /\ TemHistorico
    /\ modelo # Nenhum
    /\ Valor(modelo).history
         = [i \in 1..Len(Valor(dados_preparados)) |->
               Valor(dados_preparados)[i].ds]

\* the dates one cadence step after the date d: the same day one step
\* later, or the next period end when d is itself a month end
PassoDeCadencia(d, per) ==
    LET meses == IF per = "mensal" THEN 1
                 ELSE IF per = "trimestral" THEN 3
                 ELSE IF per = "semestral" THEN 6 ELSE 12
    IN IF per = "diaria" THEN {d + 1}
       ELSE IF per = "semanal" THEN {d + 7}
       ELSE IF per = "quinzenal" THEN {d + 14}
       ELSE {SomaMeses(d, meses)}
            \cup (IF EhFimDoMes(d) THEN {FimDoMes(d, meses)} ELSE {})

PrimeiraPrevisao ==
    LET idx == { i \in 1..Len(saida) : saida[i].tipo = "previsao" }
    IN saida[CHOOSE i \in idx : \A j \in idx : i <= j]

\* C4 as stated: after prepare and a successful train on the prepared
\* series, the first forecast-labelled date is the last historical date
\* plus one cadence step, for every supported cadence.
C4_Continuidade ==
    (/\ Mesclou
     /\ ModeloDosDados
     /\ periodicidade \in Cadencias
     /\ \E i \in 1..Len(saida) : saida[i].tipo = "previsao")
        => PrimeiraPrevisao.data
              \in PassoDeCadencia(MaxDs(Valor(dados_preparados)),
                                  periodicidade)

\* C5 as stated: with keep_historical true, every output row dated at or
\* before the last historical date has the historical value of its date
\* as mean.
C5_ExatidaoDoHistorico ==
    (Mesclou /\ incluir /\ TemHistorico) =>
        \A r \in LinhasDe(saida) :
            r.data <= MaxDs(Valor(dados_preparados)) =>
                \E h \in LinhasDe(Valor(dados_preparados)) :
                    h.ds = r.data /\ r.valor = h.y

\* C6: a row is labelled historical exactly when its date is at or before
\* the last historical date, forecast otherwise, and every forecast-
\* labelled row carries the model's mean, lower and upper bound of its date.
C6_RotulosEPrevisaoIntacta ==
    Mesclou =>
        /\ \A r \in LinhasDe(saida) :
              r.tipo = "historico"
                 <=> (TemHistorico
                      /\ r.data <= MaxDs(Valor(dados_preparados)))
        /\ \A r \in LinhasDe(saida) :
              r.tipo = "previsao" =>
                 \E p \in LinhasDe(Valor(previsao)) :
                    /\ p.ds = r.data
                    /\ r.valor = p.yhat
                    /\ r.limite_inferior = p.yhat_lower
                    /\ r.limite_superior = p.yhat_upper
        /\ \A p \in LinhasDe(Valor(previsao)) :
              (incluir \/ ~TemHistorico
                 \/ p.ds > MaxDs(Valor(dados_preparados)))
                 => \E r \in LinhasDe(saida) : r.data = p.ds

\* a merge that returned rows of both labels
C6_Testemunha ==
    /\ Mesclou
    /\ \E r \in LinhasDe(saida) : r.tipo = "historico"
    /\ \E r \in LinhasDe(saida) : r.tipo = "previsao"

\* C7 as stated: every historical-labelled row has lower and upper bound
\* equal to its value.
C7_Original ==
    Mesclou =>
        \A r \in LinhasDe(saida) :
            r.tipo = "historico" =>
                r.limite_inferior = r.valor /\ r.limite_superior = r.valor

\* C7 amended: every historical-labelled row keeps the lower and upper
\* bound the model gave for its date; only the mean is overwritten.
C7_LimitesDoModelo ==
    Mesclou =>
        \A r \in LinhasDe(saida) :
            r.tipo = "historico" =>
                \E p \in LinhasDe(Valor(previsao)) :
                    /\ p.ds = r.data
                    /\ r.limite_inferior = p.yhat_lower
                    /\ r.limite_superior = p.yhat_upper

\* a historical-labelled row whose mean was overwritten by the actual value
C7_Testemunha ==
    /\ Mesclou
    /\ \E r \in LinhasDe(saida) :
          /\ r.tipo = "historico"
          /\ \E h \in LinhasDe(Valor(dados_preparados)) :
                h.ds = r.data /\ r.valor = h.y
          /\ r.limite_inferior # r.valor

\* -------------------------------------------------------------- session
\* C8: a forecast call made when no earlier train call of the session has
\* succeeded returns an empty result and raises nothing.
C8_PreverSemTreino ==
    ~treinou =>
        /\ op = "prever" => (previsao = Nenhum /\ ~levantou)
        /\ op = "obter" => (previsao = Nenhum /\ saida = <<>> /\ ~levantou)

\* a forecast asked of a session with prepared data and no successful train
C8_Testemunha ==
    /\ op = "prever"
    /\ ~treinou
    /\ TemHistorico
    /\ Len(Valor(dados_preparados)) >= 2

\* C9: train never raises; with no data, or when configuring or fitting
\* fails (missing engine included), it returns False.
C9_TreinarNaoLevanta ==
    op = "treinar" =>
        /\ ~levantou
        /\ retorno \in {"True", "False"}
        /\ (~TemHistorico \/ ~PROPHET_AVAILABLE) => retorno = "False"
        /\ retorno = "False" => (modelo = Nenhum \/ ~TemHistorico)
        /\ retorno = "True" => modelo # Nenhum

\* a train on prepared data that failed for want of the engine
C9_Testemunha ==
    /\ op = "treinar"
    /\ retorno = "False"
    /\ TemHistorico
    /\ ~PROPHET_AVAILABLE

\* C10 as stated: a fold that fails to fit is excluded from the aggregate;
\* metrics are still returned from the remaining folds.
C10_DobraFalhaExcluida ==
    (/\ op = "avaliar"
     /\ dobras_falhas # {}
     /\ dobras_falhas # dobras)
        => /\ metricas # Nenhum
           /\ Valor(metricas).dobras = dobras \ dobras_falhas

\* ------------------------------------------------------- degenerate input
QuadroDegenerado ==
    df = <<>> \/ "data" \notin colunas \/ "valor" \notin colunas

\* C11: detectar_eventos and preparar_dados, called with an empty series
\* or a series lacking the date or the value column, return an empty
\* result and raise nothing.
C11_EntradaDegenerada ==
    QuadroDegenerado =>
        /\ chamada # "nenhuma" => eventos = <<>>
        /\ op = "preparar" => df_prophet = <<>>
        /\ ~levantou

\* both handlers have been called on a frame that has rows but lacks a
\* column
C11_Testemunha ==
    /\ df # <<>>
    /\ colunas # ColunasPadrao
    /\ chamada # "nenhuma"
    /\ op = "preparar"

TiposDe(evs) == { evs[i].tipo : i \in 1..Len(evs) }

\* the mean of the rolling standard deviation is undefined (fewer than
\* three rows) or zero: every window of three or more rows has deviation
\* zero exactly when the values of the series are all equal
DesvioMedioNuloOuIndefinido ==
    \/ Len(df) < 3
    \/ \A i \in 1..Len(df) : df[i].valor = df[1].valor

\* C12: when the mean rolling standard deviation of the series is zero or
\* undefined, detectar_eventos emits no peak, valley or trend-reversal
\* event and raises nothing.
C12_DesvioNuloSemEvento ==
    chamada # "nenhuma" =>
        \/ /\ (TiposDe(candidatos) \cup TiposDe(eventos))
                 \cap ({"pico", "vale"} \cup TiposInversao) = {}
           /\ ~levantou
        \/ ~DesvioMedioNuloOuIndefinido

\* a detection on six or more rows whose rolling deviations are all zero,
\* with every threshold at zero
C12_Testemunha ==
    /\ chamada = "detectar"
    /\ Len(df) >= 6
    /\ SomaStdHiAte(ValoresDe(SortValues(df)), Len(df)) = 0
    /\ sensibilidade = 0

C14_QuadroIntacto == [][df' = df /\ colunas' = colunas]_vars

\* both handlers have been called on a frame whose rows are out of date
\* order and that holds both columns
C14_Testemunha ==
    /\ chamada # "nenhuma"
    /\ op = "preparar"
    /\ colunas = ColunasPadrao
    /\ df # SortValues(df)
    /\ dados_preparados # Nenhum

\* ------------------------------------------------------------ the pipeline
\* what the forecast pipeline stores for a frame f processed alone, when
\* the steps in falhas fail: nothing, or the merged frame
PrevisaoIsolada(f, falhas) ==
    LET p == DadosProphet(f)
        h == [i \in 1..Len(p) |-> p[i].ds]
        per == DetectarPeriodicidade(p)
    IN IF f = <<>> \/ p = <<>> \/ falhas # {} THEN {Nenhum}
       ELSE { Algum(DadosPrevisao(
                  Predicao(h \o DatasFuturas(h[Len(h)], PeriodosPadrao(per),
                                             ObterFrequenciaPandas(per)),
                           base),
                  Algum(p), TRUE)) : base \in BasesPrevisao }

EventosIsolados(f) ==
    { r.evs : r \in ResultadosDetectarEventos(f, ColunasPadrao, 15) }

\* C15: invocations for different indicators share no mutable state: the
\* detector's field is never changed, and what the pipeline stores for an
\* indicator is what it stores for that indicator's frame processed alone,
\* whatever the other invocations have done, are doing or failed at.
C15_SemEstadoPartilhado ==
    /\ sensibilidade = 15
    /\ \A x \in Indicadores :
          /\ previsoes[x] \in
                (IF previsores[x].pc = "fim"
                 THEN PrevisaoIsolada(dados_indicadores[x],
                                      previsores[x].falhas)
                 ELSE {Nenhum})
          /\ eventos_indicadores[x] # Nenhum =>
                /\ previsores[x].detectado
                /\ Valor(eventos_indicadores[x])
                      \in EventosIsolados(dados_indicadores[x])
          /\ (previsores[x].detectado /\ eventos_indicadores[x] = Nenhum)
                => <<>> \in EventosIsolados(dados_indicadores[x])

\* both indicators finished on different frames: one has its forecast and
\* its events stored, the invocation of the other failed in training
C15_Testemunha ==
    \E x, y \in Indicadores :
        /\ x # y
        /\ dados_indicadores[x] # dados_indicadores[y]
        /\ previsores[x].pc = "fim" /\ previsores[y].pc = "fim"
        /\ previsoes[x] # Nenhum
        /\ eventos_indicadores[x] # Nenhum
        /\ "treinar" \in previsores[y].falhas

\* --------------------------------------------------------- periodicity
\* the positive differences between consecutive prepared dates
RECURSIVE DeltasPositivos(_)
DeltasPositivos(p) ==
    IF Len(p) < 2 THEN <<>>
    ELSE (IF p[2].ds - p[1].ds > 0 THEN <<p[2].ds - p[1].ds>> ELSE <<>>)
         \o DeltasPositivos(Tail(p))

\* C16: the classifier maps the median day difference m to daily if
\* m <= 1, weekly if m <= 7, biweekly if m <= 15, monthly if m <= 45,
\* quarterly if m <= 100, semiannual if m <= 200 and annual otherwise, and
\* gives unknown with fewer than 2 points or no positive difference.
C16_Classificacao ==
    (op = "preparar" /\ dados_preparados # Nenhum) =>
        LET deltas == DeltasPositivos(Valor(dados_preparados))
            m2     == MedianaX2(deltas)
        IN periodicidade =
             (IF Len(Valor(dados_preparados)) < 2 \/ deltas = <<>>
              THEN "desconhecida"
              ELSE IF m2 <= 2 THEN "diaria"
              ELSE IF m2 <= 14 THEN "semanal"
              ELSE IF m2 <= 30 THEN "quinzenal"
              ELSE IF m2 <= 90 THEN "mensal"
              ELSE IF m2 <= 200 THEN "trimestral"
              ELSE IF m2 <= 400 THEN "semestral"
              ELSE "anual")

\* a series prepared out of order whose median difference is exactly 200
\* days, classified semiannual
C16_Testemunha ==
    /\ op = "preparar"
    /\ dados_preparados # Nenhum
    /\ df # SortValues(df)
    /\ DeltasPositivos(Valor(dados_preparados)) = <<200, 200>>
    /\ periodicidade = "semestral"

\* ------------------------------------------------------------- Scenario A
\* a detection on the whole example series
CenarioA == chamada = "detectar" /\ Len(df) = PeriodosCenario

EventosDe(evs) == { evs[i] : i \in 1..Len(evs) }

\* C17 as stated: at sensitivity 1.0 the result holds a peak at the date
\* of index 20 and a valley at the date of index 40; at sensitivity 10.0
\* it holds neither.
C17_Original ==
    CenarioA =>
        LET pico == Evento(df[IndicePico + 1], "pico")
            vale == Evento(df[IndiceVale + 1], "vale")
        IN IF sensibilidade = 10
           THEN pico \in EventosDe(eventos) /\ vale \in EventosDe(eventos)
           ELSE pico \notin EventosDe(eventos)
                /\ vale \notin EventosDe(eventos)

\* C17 amended: at both sensitivities the peak rule yields the peak of
\* index 20 and the valley rule the valley of index 40.  At sensitivity 1.0
\* neither is returned: the sharp increase of index 20 and the sharp
\* decrease of index 40 take their places.  At sensitivity 10.0 the peak is
\* again replaced by the sharp increase, and the valley is returned.
C17_CenarioASemPico ==
    CenarioA =>
        LET pico == Evento(df[IndicePico + 1], "pico")
            vale == Evento(df[IndiceVale + 1], "vale")
            aumento == Evento(df[IndicePico + 1], "aumento_abrupto")
            queda   == Evento(df[IndiceVale + 1], "queda_abrupta")
        IN /\ pico \in EventosDe(candidatos)
           /\ vale \in EventosDe(candidatos)
           /\ pico \notin EventosDe(eventos)
           /\ aumento \in EventosDe(eventos)
           /\ IF sensibilidade = 10
              THEN vale \notin EventosDe(eventos)
                   /\ queda \in EventosDe(eventos)
              ELSE vale \in EventosDe(eventos)
                   /\ queda \notin EventosDe(eventos)

\* the detection of the whole example series at sensitivity 10.0
C17_Testemunha ==
    /\ CenarioA
    /\ sensibilidade = 100
    /\ Len(eventos) >= 2

\* C18: without incluir_historico the merge returns only forecast-labelled
\* rows, none dated at or before the last historical date; the output of
\* the merge is always in ascending date order.
C18_SoPrevisaoEmOrdem ==
    Mesclou =>
        /\ \A i \in 1..(Len(saida) - 1) : saida[i].data <= saida[i + 1].data
        /\ ~incluir =>
              \A r \in LinhasDe(saida) :
                  /\ r.tipo = "previsao"
                  /\ TemHistorico => r.data > MaxDs(Valor(dados_preparados))

\* a merge without incluir_historico that dropped rows of the forecast
\* frame and returned the others
C18_Testemunha ==
    /\ Mesclou
    /\ ~incluir
    /\ TemHistorico
    /\ saida # <<>>
    /\ Len(saida) < Len(Valor(previsao))

\* ------------------------------------------------------ proximity filter
\* the loop of the filter is about to compare a candidate that is less
\* than 30 days after the last kept event
CandidatoProximo ==
    /\ i_filtro >= 1
    /\ i_filtro < Len(df_eventos)
    /\ df_eventos[i_filtro + 1].data
          - eventos_filtrados[Len(eventos_filtrados)].data < 30

\* C19: a candidate less than 30 days after the last kept event and of the
\* same kind: for peaks (valleys) the kept slot ends up holding whichever
\* of the two has the higher (lower) value; for every other kind the
\* candidate replaces the kept event.
C19_MesmoTipoProximo ==
    [][LET atual  == df_eventos[i_filtro + 1]
           ultimo == eventos_filtrados[Len(eventos_filtrados)]
           novo   == eventos_filtrados'[Len(eventos_filtrados')]
       IN (CandidatoProximo /\ atual.tipo = ultimo.tipo) =>
             /\ Len(eventos_filtrados') = Len(eventos_filtrados)
             /\ \A k \in 1..(Len(eventos_filtrados) - 1) :
                   eventos_filtrados'[k] = eventos_filtrados[k]
             /\ IF atual.tipo = "pico"
                THEN /\ novo \in {atual, ultimo}
                     /\ novo.valor = Max2(atual.valor, ultimo.valor)
                ELSE IF atual.tipo = "vale"
                THEN /\ novo \in {atual, ultimo}
                     /\ novo.valor = Min2(atual.valor, ultimo.valor)
                ELSE novo = atual]_vars

\* the second candidate, a higher peak 10 days after the first, has taken
\* the slot of the first
C19_Testemunha ==
    /\ i_filtro = 2
    /\ df_eventos[1].tipo = "pico"
    /\ df_eventos[2].tipo = "pico"
    /\ df_eventos[2].data - df_eventos[1].data < 30
    /\ df_eventos[2].valor > df_eventos[1].valor
    /\ eventos_filtrados = <<df_eventos[2]>>

\* C20: a candidate less than 30 days after the last kept event and of a
\* different kind replaces it if and only if the candidate is an abrupt
\* change and the kept event is not; otherwise the candidate is discarded
\* and the kept list is unchanged.
C20_TipoDiferenteProximo ==
    [][LET atual  == df_eventos[i_filtro + 1]
           ultimo == eventos_filtrados[Len(eventos_filtrados)]
       IN (CandidatoProximo /\ atual.tipo # ultimo.tipo) =>
             eventos_filtrados' =
                IF /\ atual.tipo \in {"aumento_abrupto", "queda_abrupta"}
                   /\ ultimo.tipo \notin {"aumento_abrupto", "queda_abrupta"}
                THEN [eventos_filtrados
                        EXCEPT ![Len(eventos_filtrados)] = atual]
                ELSE eventos_filtrados]_vars

\* a sharp increase has displaced a peak 10 days older, and the sharp
\* decrease that came 10 days later was discarded
C20_Testemunha ==
    /\ i_filtro = 3
    /\ df_eventos[1].tipo = "pico"
    /\ df_eventos[2].tipo = "aumento_abrupto"
    /\ df_eventos[3].tipo = "queda_abrupta"
    /\ df_eventos[3].data - df_eventos[1].data < 30
    /\ eventos_filtrados = <<df_eventos[2]>>

\* ------------------------------------------------------------- the rules
\* x > df['desvio_padrao'].mean() * sensibilidade in the last call: the mean
\* is desvio / (Escala * (n - 2)), the sensitivity is in tenths
AcimaDoLimiarDeDesvio(x) ==
    x * (Len(df) - 2) * Escala * 10 > sensibilidade * desvio

EhPicoEm(i) ==
    /\ 1 < i /\ i < Len(df)
    /\ df[i].valor > df[i - 1].valor
    /\ df[i].valor > df[i + 1].valor
    /\ AcimaDoLimiarDeDesvio(
          df[i].valor - Max2(df[i - 1].valor, df[i + 1].valor))

EhValeEm(i) ==
    /\ 1 < i /\ i < Len(df)
    /\ df[i].valor < df[i - 1].valor
    /\ df[i].valor < df[i + 1].valor
    /\ AcimaDoLimiarDeDesvio(
          Min2(df[i - 1].valor, df[i + 1].valor) - df[i].valor)

DoTipo(evs, tipos) == SelectSeq(evs, LAMBDA e : e.tipo \in tipos)

\* C21: rule 1 yields a peak candidate at the interior index i exactly
\* when the value is above both neighbours and its margin over the larger
\* one exceeds mean(rolling std) x sensitivity, a valley candidate exactly
\* in the mirrored case, and nothing for fewer than three points.
C21_PicosEVales ==
    chamada = "detectar" =>
        /\ \A i \in 1..Len(df) :
              /\ Evento(df[i], "pico") \in EventosDe(candidatos)
                    <=> EhPicoEm(i)
              /\ Evento(df[i], "vale") \in EventosDe(candidatos)
                    <=> EhValeEm(i)
        /\ Len(DoTipo(candidatos, {"pico", "vale"}))
              = Cardinality({ i \in 1..Len(df) : EhPicoEm(i) })
                + Cardinality({ i \in 1..Len(df) : EhValeEm(i) })
        /\ Len(df) < 3 => DoTipo(candidatos, {"pico", "vale"}) = <<>>

\* a detection with a positive sensitivity that yields a peak and a valley
\* candidate
C21_Testemunha ==
    /\ chamada = "detectar"
    /\ sensibilidade > 0
    /\ \E i, j \in 2..(Len(df) - 1) : EhPicoEm(i) /\ EhValeEm(j)

\* a common multiple of the values of the series
MultiploComum == Mmc(ValoresDe(df))

\* the percent changes of the rows 2..n, times m / 100
PctDaSerie(m) ==
    [i \in 2..Len(df) |->
        (df[i].valor - df[i - 1].valor) * (m \div df[i - 1].valor)]

SomaAbsPct(pct) == SomaEntre([k \in 2..Len(df) |-> Abs(pct[k])], 2, Len(df))

\* x > T, T = mean(|percent change|) x sensitivity x 2 over the n - 1
\* defined changes, x scaled like the changes that add up to soma
AcimaDoLimiarDeVariacao(x, soma) ==
    x * (Len(df) - 1) * 10 > soma * sensibilidade * 2

\* C22: rule 2 yields a sharp increase at a point after the first exactly
\* when its percent change p exceeds T = mean(|p|) x sensitivity x 2, a
\* sharp decrease exactly when p < -T; the first point, whose change is
\* undefined, yields nothing and no point yields both.
C22_MudancasAbruptas ==
    chamada = "detectar" =>
        LET pct   == PctDaSerie(MultiploComum)
            soma  == SomaAbsPct(pct)
            cands == EventosDe(candidatos)
        IN /\ \A i \in 1..Len(df) :
                 /\ Evento(df[i], "aumento_abrupto") \in cands
                       <=> (i >= 2 /\ AcimaDoLimiarDeVariacao(pct[i], soma))
                 /\ Evento(df[i], "queda_abrupta") \in cands
                       <=> (i >= 2 /\ AcimaDoLimiarDeVariacao(-pct[i], soma))
                 /\ ~ /\ Evento(df[i], "aumento_abrupto") \in cands
                      /\ Evento(df[i], "queda_abrupta") \in cands
           /\ Len(DoTipo(candidatos, TiposAbruptos))
                 = Cardinality({ i \in 2..Len(df) :
                                   \/ AcimaDoLimiarDeVariacao(pct[i], soma)
                                   \/ AcimaDoLimiarDeVariacao(-pct[i], soma) })

\* a detection with a positive sensitivity that yields a sharp increase
\* and leaves out a fall that stays within the threshold
C22_Testemunha ==
    /\ chamada = "detectar"
    /\ sensibilidade > 0
    /\ \E i, j \in 2..Len(df) :
          /\ Evento(df[i], "aumento_abrupto") \in EventosDe(candidatos)
          /\ df[j].valor < df[j - 1].valor
          /\ Evento(df[j], "queda_abrupta") \notin EventosDe(candidatos)

\* ------------------------------------------- the trend rule on its own
\* sensitivities 0 and 2.0
SensibilidadesTendencia == {0, 20}

\* days between two observations of the series
PassoTendencia == 31

InitTendencia ==
    /\ df = <<>>
    /\ colunas = ColunasPadrao
    /\ InitEventos
    /\ InitPrevisor
    /\ InitFora
    /\ sensibilidade \in SensibilidadesTendencia
    /\ PROPHET_AVAILABLE = TRUE

\* one more observation of the sorted series
AcrescentarObservacao ==
    /\ Len(df) < MaxTendencia
    /\ \E valor \in Valores :
          df' = Append(df, [data  |-> IF df = <<>> THEN 0
                                     ELSE df[Len(df)].data + PassoTendencia,
                            valor |-> valor])
    /\ eventos' = <<>>
    /\ candidatos' = <<>>
    /\ chamada' = "nenhuma"
    /\ df_eventos' = <<>>
    /\ desvio' = 0
    /\ eventos_anteriores' = Nenhum
    /\ UNCHANGED <<colunas, sensibilidade, varsPrevisor, varsFora>>

\* _detectar_tendencias on the sorted frame with its derived columns
AplicarDetectarTendencias ==
    /\ chamada = "nenhuma"
    /\ \E soma \in SomasDesvio(ValoresDe(df)) :
          /\ candidatos' = DetectarTendencias(df, soma, sensibilidade)
          /\ desvio' = soma
    /\ chamada' = "tendencias"
    /\ UNCHANGED <<df, colunas, sensibilidade, eventos, df_eventos,
                   eventos_anteriores, varsPrevisor, varsFora>>

NextTendencia ==
    \/ AcrescentarObservacao
    \/ AplicarDetectarTendencias

SpecTendencia == InitTendencia /\ [][NextTendencia]_vars

\* w = min(6, floor(n / 3))
JanelaDaSerie == Min2(6, Len(df) \div 3)

\* w x trend[i], the sum of the w values that end at row i (1-based)
SomaDaJanela(i) ==
    SomaEntre([k \in 1..Len(df) |-> df[k].valor], i - JanelaDaSerie + 1, i)

\* trend[i] and trend[i - w] are both defined
TemDelta(i) == i - JanelaDaSerie >= JanelaDaSerie

\* w x delta[i]
DeltaDe(i) == SomaDaJanela(i) - SomaDaJanela(i - JanelaDaSerie)

\* row i (1-based) is visited after an earlier visited row: its 0-based
\* index is at least w + 3
TemAnterior(i) == i >= JanelaDaSerie + 4

\* |delta[i] - delta[i-1]| > mean(rolling_std) x sensitivity
Significativa(i) ==
    Abs(DeltaDe(i) - DeltaDe(i - 1)) * (Len(df) - 2) * Escala * 10
        > sensibilidade * desvio * JanelaDaSerie

InverteEm(i, sinal) ==
    /\ TemAnterior(i)
    /\ TemDelta(i - 1)
    /\ sinal * DeltaDe(i - 1) > 0
    /\ sinal * DeltaDe(i) < 0
    /\ Significativa(i)

\* C23: on a series of n >= 6 points rule 3 uses the window
\* w = min(6, floor(n/3)) and emits a reversal at a visited index exactly
\* when its delta and the previous delta have opposite signs and differ by
\* more than mean(rolling_std) x sensitivity; the reversal is up-to-down
\* when the previous delta is positive, down-to-up when it is negative.
C23_InversoesDeTendencia ==
    (chamada = "tendencias" /\ Len(df) >= 6) =>
        LET altaBaixa == { i \in 1..Len(df) : InverteEm(i, 1) }
            baixaAlta == { i \in 1..Len(df) : InverteEm(i, -1) }
            cands     == EventosDe(candidatos)
        IN /\ \A i \in 1..Len(df) :
                 /\ Evento(df[i], "inversao_alta_baixa") \in cands
                       <=> i \in altaBaixa
                 /\ Evento(df[i], "inversao_baixa_alta") \in cands
                       <=> i \in baixaAlta
           /\ Len(candidatos) = Cardinality(altaBaixa \cup baixaAlta)
           /\ \A k \in 1..Len(candidatos) :
                 candidatos[k].tipo \in TiposInversao

\* under a positive sensitivity the rule emits a reversal of each kind
C23_Testemunha ==
    /\ chamada = "tendencias"
    /\ sensibilidade > 0
    /\ \E i, j \in 1..Len(df) :
          /\ Evento(df[i], "inversao_alta_baixa") \in EventosDe(candidatos)
          /\ Evento(df[j], "inversao_baixa_alta") \in EventosDe(candidatos)
          /\ InverteEm(i, 1)
          /\ InverteEm(j, -1)

\* a reversal candidate at row i (1-based)
TemInversaoEm(i) ==
    \E t \in TiposInversao : Evento(df[i], t) \in EventosDe(candidatos)

\* the delta of row i is undefined or exactly zero
DeltaNuloOuIndefinido(i) == ~TemDelta(i) \/ DeltaDe(i) = 0

\* d1 / w and d2 / w are further apart than mean(rolling_std) x
\* sensitivity
Distantes(d1, d2) ==
    Abs(d1 - d2) * (Len(df) - 2) * Escala * 10
        > sensibilidade * desvio * JanelaDaSerie

\* C30: rule 3 emits no reversal at a 0-based index below window + 3, and
\* a row whose own delta or whose preceding delta is exactly zero or
\* undefined gets no reversal, whatever the deltas further back are.
C30_SemInversaoPorZero ==
    (chamada = "tendencias" /\ Len(df) >= 6) =>
        \A i \in 1..Len(df) :
            TemInversaoEm(i) =>
                /\ i - 1 >= JanelaDaSerie + 3
                /\ ~DeltaNuloOuIndefinido(i)
                /\ ~DeltaNuloOuIndefinido(i - 1)

\* a rising delta, then a delta of exactly zero, then a falling delta far
\* enough from the rising one, in a series whose first delta is
\* undefined and whose second is not zero: no reversal at any of these
\* rows
C30_Testemunha ==
    /\ chamada = "tendencias"
    /\ \E i \in (JanelaDaSerie + 5)..Len(df) :
          /\ TemDelta(i - 2)
          /\ DeltaDe(i - 2) * DeltaDe(i) < 0
          /\ DeltaDe(i - 1) = 0
          /\ Distantes(DeltaDe(i), DeltaDe(i - 2))
          /\ ~TemInversaoEm(i - 1)
          /\ ~TemInversaoEm(i)
    /\ LET p == JanelaDaSerie + 3
       IN /\ ~TemDelta(p)
          /\ DeltaDe(p + 1) # 0
          /\ ~TemInversaoEm(p)
          /\ ~TemInversaoEm(p + 1)

\* ------------------------------------------- long series for the classifier
\* a repeated date, a day, eight days
DeltasPeriodicidade == {0, 1, 8}

DatasRepetidas(q) ==
    Cardinality({ i \in 2..Len(q) : q[i].data = q[i - 1].data })

InitPeriodicidade ==
    /\ df = <<>>
    /\ colunas = ColunasPadrao
    /\ InitEventos
    /\ InitPrevisor
    /\ InitFora
    /\ sensibilidade = 15
    /\ PROPHET_AVAILABLE = TRUE

\* the caller's series gets one more row before it is prepared
AcrescentarData ==
    /\ op = "init"
    /\ Len(df) < MaxPeriodicidade
    /\ \E d \in DeltasPeriodicidade :
          /\ d = 0 => (df # <<>> /\ DatasRepetidas(df) < MaxRepetidas)
          /\ df' = Append(df, [data  |-> IF df = <<>> THEN 0
                                         ELSE df[Len(df)].data + d,
                                valor |-> 10])
    /\ UNCHANGED <<colunas, sensibilidade, eventos, candidatos, chamada,
                   df_eventos, desvio, eventos_anteriores, varsPrevisor,
                   varsFora>>

NextPeriodicidade ==
    \/ AcrescentarData
    \/ op = "init" /\ PrepararQuadro

SpecPeriodicidade == InitPeriodicidade /\ [][NextPeriodicidade]_vars

\* the day differences of the first k pairs of consecutive rows
PrimeirosDeltas(p, k) ==
    [i \in 1..Min2(k, Max2(Len(p) - 1, 0)) |-> p[i + 1].ds - p[i].ds]

Positivos(deltas) == SelectSeq(deltas, LAMBDA d : d > 0)

\* the label of the median of the differences
ClasseDaMediana(deltas) ==
    IF deltas = <<>> THEN "desconhecida"
    ELSE LET m2 == MedianaX2(deltas)
         IN IF m2 <= 2 THEN "diaria"
            ELSE IF m2 <= 14 THEN "semanal"
            ELSE IF m2 <= 30 THEN "quinzenal"
            ELSE IF m2 <= 90 THEN "mensal"
            ELSE IF m2 <= 200 THEN "trimestral"
            ELSE IF m2 <= 400 THEN "semestral"
            ELSE "anual"

\* the first 10 positive day differences of the prepared series
DezPrimeirosPositivos(p) ==
    LET pos == Positivos(PrimeirosDeltas(p, Len(p)))
    IN SubSeq(pos, 1, Min2(10, Len(pos)))

\* C24 as stated: the label is that of the median of up to the first 10
\* positive day differences between consecutive prepared dates.
C24_Original ==
    (op = "preparar" /\ dados_preparados # Nenhum) =>
        periodicidade
            = ClasseDaMediana(DezPrimeirosPositivos(Valor(dados_preparados)))

\* C24: the classifier looks at the first ten rows of the prepared series
\* only: the label is that of the median of the positive ones among the
\* first 9 day differences between consecutive dates.
C24_NovePrimeirosDeltas ==
    (op = "preparar" /\ dados_preparados # Nenhum) =>
        periodicidade
            = ClasseDaMediana(Positivos(PrimeirosDeltas(
                                            Valor(dados_preparados), 9)))

\* eleven prepared rows with a repeated date among the first ten, whose
\* label is not that of the first 10 positive differences
C24_Testemunha ==
    /\ op = "preparar"
    /\ dados_preparados # Nenhum
    /\ Len(Valor(dados_preparados)) = 11
    /\ \E i \in 1..9 : PrimeirosDeltas(Valor(dados_preparados), 9)[i] = 0
    /\ periodicidade
          # ClasseDaMediana(DezPrimeirosPositivos(Valor(dados_preparados)))

\* ------------------------------------------------------------ seasonality
\* the model holds a component with this name and period
TemComponente(name, periodo_x100) ==
    \E c \in Valor(modelo).seasonalities :
        c.name = name /\ c.periodo_x100 = periodo_x100

TiposPicoVale == {"pico", "vale"}

\* some event of evs has the date d and a kind in tipos
TemNaData(evs, d, tipos) ==
    \E k \in 1..Len(evs) : evs[k].data = d /\ evs[k].tipo \in tipos

\* in the sorted candidates, one of kind primeiro comes at some place
\* before one of kind depois of the same date
VemAntesNaData(primeiro, depois) ==
    \E a, b \in 1..Len(df_eventos) :
        /\ a < b
        /\ df_eventos[a].data = df_eventos[b].data
        /\ df_eventos[a].tipo \in primeiro
        /\ df_eventos[b].tipo \in depois

\* C26: on a series of unique dates, a date that yields a peak or valley
\* candidate and an abrupt-change candidate has no peak or valley in the
\* list detect_events returns, whichever of the two comes first in the
\* sorted candidates.
C26_SemPicoNaDataDaMudanca ==
    chamada = "detectar" =>
        \A i \in 1..Len(df) :
            (/\ TemNaData(candidatos, df[i].data, TiposPicoVale)
             /\ TemNaData(candidatos, df[i].data, TiposAbruptos))
                => ~TemNaData(eventos, df[i].data, TiposPicoVale)

\* a detection under a positive sensitivity whose sorted candidates hold
\* the peak or valley before the abrupt change at one date and after it
\* at another
C26_Testemunha ==
    /\ chamada = "detectar"
    /\ sensibilidade > 0
    /\ VemAntesNaData(TiposPicoVale, TiposAbruptos)
    /\ VemAntesNaData(TiposAbruptos, TiposPicoVale)

\* ------------------------------------------------------- spacing of events
\* C27: any two events of the list detect_events returns are at least 30
\* days apart, so the dates of the list increase strictly and none
\* appears twice.
C27_TrintaDiasEntreEventos ==
    chamada = "detectar" =>
        \A j \in 2..Len(eventos) : \A i \in 1..(j - 1) :
            /\ eventos[j].data - eventos[i].data >= 30
            /\ eventos[i].data # eventos[j].data

\* a detection that returns several events out of candidates some of
\* which are less than 30 days apart, on different dates and on the same
C27_Testemunha ==
    /\ chamada = "detectar"
    /\ Len(eventos) >= 2
    /\ \E a, b, c \in 1..Len(df_eventos) :
          /\ a < b /\ b < c
          /\ df_eventos[a].data = df_eventos[b].data
          /\ df_eventos[c].data > df_eventos[b].data
          /\ df_eventos[c].data - df_eventos[b].data < 30

\* ------------------------------------------------------- runs of one kind
\* the whole frame of candidates is a run: abrupt changes or reversals of
\* one kind, each less than 30 days after the one before it
CorridaDoMesmoTipo ==
    /\ Len(df_eventos) >= 2
    /\ df_eventos[1].tipo \in TiposAbruptos \cup TiposInversao
    /\ \A k \in 2..Len(df_eventos) :
          /\ df_eventos[k].tipo = df_eventos[1].tipo
          /\ df_eventos[k].data - df_eventos[k - 1].data < 30

FiltroTerminado == i_filtro >= 1 /\ i_filtro >= Len(df_eventos)

\* C28: the filter measures a candidate's gap against the kept event as it
\* stands after replacements: a run of abrupt changes or reversals of one
\* kind, each less than 30 days after the previous one, leaves its latest
\* candidate alone, however far the first and the last are apart.
C28_CorridaReduzidaAoUltimo ==
    (FiltroTerminado /\ CorridaDoMesmoTipo) =>
        eventos_filtrados = <<df_eventos[Len(df_eventos)]>>

\* a run whose first and last candidates are 30 days or more apart has
\* been reduced to its last candidate
C28_Testemunha ==
    /\ FiltroTerminado
    /\ CorridaDoMesmoTipo
    /\ df_eventos[Len(df_eventos)].data - df_eventos[1].data >= 30
    /\ eventos_filtrados = <<df_eventos[Len(df_eventos)]>>

\* -------------------------------------------- a caller and its session
\* the frames the caller comes to hold: none, two annual rows, two monthly
\* rows, one row without a value
QuadrosDaSessao ==
    { <<>>,
      SerieDeEntrada(367, "anual", 2, FALSE),
      SerieDeEntrada(364, "mensal", 2, FALSE),
      SerieDeEntrada(364, "mensal", 1, TRUE) }

InitSessaoDoChamador ==
    /\ df = <<>>
    /\ colunas = ColunasPadrao
    /\ InitEventos
    /\ InitPrevisor
    /\ InitFora
    /\ sensibilidade = 15
    /\ PROPHET_AVAILABLE = TRUE

\* the caller loads another frame
ReceberQuadro ==
    /\ \E q \in QuadrosDaSessao, cols \in ColunasPossiveis :
          /\ df' = q
          /\ colunas' = cols
    /\ UNCHANGED <<sensibilidade, eventos, candidatos, chamada, df_eventos,
                   desvio, eventos_anteriores, varsPrevisor, varsFora>>

NextSessaoDoChamador ==
    \/ ReceberQuadro
    \/ PrepararQuadro
    \/ Treinar
    \/ Prever

SpecSessaoDoChamador ==
    InitSessaoDoChamador /\ [][NextSessaoDoChamador]_vars

CamposDaSessao == <<dados_preparados, periodicidade, modelo>>

SemDadosParaTreinar ==
    dados_preparados = Nenhum \/ Valor(dados_preparados) = <<>>

\* the forecast frame starts with the dates the model was fitted on and
\* goes on after them
PrevisaoDoModelo(prev, mod) ==
    /\ Len(prev) > Len(mod.history)
    /\ \A k \in 1..Len(mod.history) : prev[k].ds = mod.history[k]

\* C29: preparar_dados on an empty frame or a frame without one of the
\* columns, and treinar without data, leave the prepared series, the
\* periodicity and the fitted model as they were; a forecast that follows
\* such a train comes from the model fitted before; the fitted model is
\* lost only in a train that had data and failed.
C29_RetornosAntecipados ==
    [][/\ (op' = "preparar" /\ UNCHANGED <<df, colunas>> /\ QuadroDegenerado)
             => UNCHANGED CamposDaSessao
       /\ (op' = "treinar" /\ SemDadosParaTreinar)
             => (UNCHANGED CamposDaSessao /\ retorno' = "False")
       /\ (modelo # Nenhum /\ modelo' = Nenhum)
             => /\ op' = "treinar"
                /\ ~SemDadosParaTreinar
                /\ retorno' = "False"
       /\ (/\ op = "treinar" /\ retorno = "False" /\ SemDadosParaTreinar
           /\ modelo # Nenhum
           /\ op' = "prever")
             => /\ UNCHANGED CamposDaSessao
                /\ previsao' # Nenhum
                      => PrevisaoDoModelo(Valor(previsao'), Valor(modelo))]_vars

\* a session with a fitted model whose prepared series has become empty:
\* treinar has returned False and the model is still there
C29_Testemunha ==
    /\ op = "treinar"
    /\ retorno = "False"
    /\ dados_preparados = Algum(<<>>)
    /\ periodicidade = "desconhecida"
    /\ modelo # Nenhum
====
